---- MODULE Spec2Model ----
(***************************************************************************)
(* Model of the typing_bot core: the stream interpreter of                 *)
(* struct_editor.py (StructEditor._simulate_typing_result and              *)
(* _handle_arrow_command), the dispatch loop of tyrec.py                   *)
(* (simulate_typing) and the compiler of structured_capture.py.            *)
(*                                                                         *)
(* Characters are their code points (ord), strings are sequences of code   *)
(* points, Python's 0-based indices are kept: text_buffer[cursor_line] is  *)
(* the TLA+ element text_buffer[cursor_line + 1].                          *)
(***************************************************************************)
EXTENDS Integers, Sequences, FiniteSets, TLC

VARIABLES
    pc,            \* position of the program: "parse", "simulate", "dispatch", "done"
    script,        \* the text of the structured file
    diagnostics,   \* the warnings parse_structured_file printed
    commands,      \* the canonical stream handed to both consumers
    i,             \* loop index of _simulate_typing_result
    text_buffer,   \* list of lines of _simulate_typing_result
    cursor_line,
    cursor_col,
    raised,        \* an exception left _simulate_typing_result
    result,        \* the list _simulate_typing_result returns
    kinds,         \* how the interpreter consumed each stream position
    text_pos,      \* units tyrec.simulate_typing has taken from text_iter
    arrows_flag,   \* arrows_flag of tyrec.simulate_typing
    LIVE_INPUT_MODE, \* the threading.Event of tyrec.py
    held,          \* keys the keyboard controller holds down
    value_error,   \* handle_arrow_command raised ValueError
    dkinds,        \* how the dispatcher consumed each stream position
    source_lines,  \* lines of simulate_execution: content.split('\n')
    up_to_line,    \* the cutoff line of simulate_execution
    self_generic_commands, \* generic_commands of the StructuredParser instance in use
    later,         \* the streams the calls after the first returned
    instance,      \* how many StructuredParser instances were made after the first
    ed_pc,         \* position of StructEditor.run: "idle", "run", "quit", "crashed"
    self_lines,    \* self.lines of the StructEditor
    cursor_y,
    cursor_x,
    scroll_y,
    scroll_x,
    modified,
    status_message,
    filename,      \* self.filename, NoFile for None
    prev,          \* the prev_* locals of StructEditor.run
    draw_count,    \* calls of draw_screen (TestStructEditor.draw_count)
    last_key,      \* the key the last getch returned, NoKey before the first
    key_count,     \* keys getch has returned
    main_pc,       \* position of main.simulate_typing: "idle", "loop", "done"
    main_pos,      \* units the for loop of main.simulate_typing has taken
    main_arrows_flag, \* arrows_flag of main.simulate_typing
    main_held,     \* keys the keyboard controller of main.py holds down
    main_error     \* main.simulate_typing raised ValueError

vars == <<pc, script, diagnostics, commands, i, text_buffer, cursor_line, cursor_col, raised,
          result, kinds, text_pos, arrows_flag, LIVE_INPUT_MODE, held,
          value_error, dkinds, source_lines, up_to_line,
          self_generic_commands, later, instance,
          ed_pc, self_lines, cursor_y, cursor_x, scroll_y, scroll_x, modified,
          status_message, filename, prev, draw_count, last_key, key_count,
          main_pc, main_pos, main_arrows_flag, main_held, main_error>>

parse_vars == <<script, diagnostics>>
partial_vars == <<source_lines, up_to_line>>
parser_vars == <<self_generic_commands, later, instance>>
interp_vars == <<i, text_buffer, cursor_line, cursor_col, raised, result, kinds>>
dispatch_vars == <<text_pos, arrows_flag, LIVE_INPUT_MODE, held, value_error, dkinds>>
editor_vars == <<ed_pc, self_lines, cursor_y, cursor_x, scroll_y, scroll_x, modified,
                 status_message, filename, prev, draw_count, last_key, key_count>>
main_vars == <<main_pc, main_pos, main_arrows_flag, main_held, main_error>>

----------------------------------------------------------------------------
(* Characters *)

BEL == 7
BS == 8
TAB == 9
LF == 10
CursorGlyph == 9474

(* The printable characters used in literals, as runs of consecutive code
   points: 32..33, 35..91, 93..95, 97..126. *)
AsciiRuns ==
    << <<32, " !">>,
       <<35, "#$%&'()*+,-./0123456789:;<=>?@ABCDEFGHIJKLMNOPQRSTUVWXYZ[">>,
       <<93, "]^_">>,
       <<97, "abcdefghijklmnopqrstuvwxyz{|}~">> >>

OrdTable ==
    [c \in UNION {{SubSeq(AsciiRuns[r][2], k, k) : k \in 1..Len(AsciiRuns[r][2])} :
                     r \in 1..Len(AsciiRuns)} |->
        LET r == CHOOSE r \in 1..Len(AsciiRuns) :
                     \E k \in 1..Len(AsciiRuns[r][2]) : SubSeq(AsciiRuns[r][2], k, k) = c
            k == CHOOSE k \in 1..Len(AsciiRuns[r][2]) : SubSeq(AsciiRuns[r][2], k, k) = c
        IN  AsciiRuns[r][1] + k - 1]

Ord(c) == OrdTable[c]

Str(s) == [k \in 1..Len(s) |-> Ord(SubSeq(s, k, k))]

Min(a, b) == IF a < b THEN a ELSE b
Max(a, b) == IF a > b THEN a ELSE b

(* Python slices s[:n] and s[n:] for n >= 0: out-of-range bounds clamp. *)
Upto(s, n) == SubSeq(s, 1, Min(n, Len(s)))
From(s, n) == IF n >= Len(s) THEN <<>> ELSE SubSeq(s, n + 1, Len(s))

(* list[k] raises IndexError unless 0 <= k < len(list). *)
InRange(tb, k) == 0 <= k /\ k < Len(tb)

----------------------------------------------------------------------------
(* StructEditor._handle_arrow_command *)

PageSize == 10

ClampCol(tb, cl, cc) ==
    IF cl < Len(tb) THEN Min(cc, Len(tb[cl + 1])) ELSE cc

DownLine(tb, cl, n) == Min(Len(tb), cl + n)

UpLine(cl, n) == Max(0, cl - n)

HandleArrowCommand(cmd, tb, cl, cc) ==
    IF cmd = Ord("u") THEN
        [line |-> UpLine(cl, 1), col |-> ClampCol(tb, UpLine(cl, 1), cc)]
    ELSE IF cmd = Ord("d") THEN
        [line |-> DownLine(tb, cl, 1), col |-> ClampCol(tb, DownLine(tb, cl, 1), cc)]
    ELSE IF cmd = Ord("l") THEN
        IF cc > 0 THEN [line |-> cl, col |-> cc - 1]
        ELSE IF cl > 0 THEN
            [line |-> cl - 1,
             col |-> IF cl - 1 < Len(tb) THEN Len(tb[cl]) ELSE 0]
        ELSE [line |-> cl, col |-> cc]
    ELSE IF cmd = Ord("r") THEN
        IF cl < Len(tb) /\ cc < Len(tb[cl + 1]) THEN [line |-> cl, col |-> cc + 1]
        ELSE IF cl < Len(tb) - 1 THEN [line |-> cl + 1, col |-> 0]
        ELSE [line |-> cl, col |-> cc]
    ELSE IF cmd = Ord("b") THEN
        [line |-> cl, col |-> 0]
    ELSE IF cmd = Ord("e") THEN
        [line |-> cl, col |-> IF cl < Len(tb) THEN Len(tb[cl + 1]) ELSE cc]
    ELSE IF cmd = Ord("B") THEN
        [line |-> 0, col |-> 0]
    ELSE IF cmd = Ord("E") THEN
        LET l == IF tb # <<>> THEN Len(tb) - 1 ELSE 0
        IN  [line |-> l, col |-> IF l < Len(tb) THEN Len(tb[l + 1]) ELSE cc]
    ELSE IF cmd = Ord("U") THEN
        [line |-> UpLine(cl, PageSize), col |-> ClampCol(tb, UpLine(cl, PageSize), cc)]
    ELSE IF cmd = Ord("D") THEN
        [line |-> DownLine(tb, cl, PageSize),
         col |-> ClampCol(tb, DownLine(tb, cl, PageSize), cc)]
    ELSE [line |-> cl, col |-> cc]

----------------------------------------------------------------------------
(* StructEditor._simulate_typing_result: one pass of the while loop *)

TabWidth == 4

Spaces(n) == [k \in 1..n |-> 32]

IsPrintable(char) == 32 <= char /\ char <= 126

(* EnsureLines with the padding loop left out *)
EnsureLines_Skip(tb, cl) == tb

(* while len(text_buffer) <= cursor_line: text_buffer.append("") *)
EnsureLines(tb, cl) ==
    IF Len(tb) <= cl THEN tb \o [k \in 1..(cl + 1 - Len(tb)) |-> <<>>] ELSE tb

St(tb, cl, cc, j, r) == [buf |-> tb, line |-> cl, col |-> cc, i |-> j, raised |-> r]

(* ArrowBranch stepping over the marker only, so that the directive is met
   again as an ordinary unit *)
ArrowBranch_MarkerOnly(cmds, j, tb, cl, cc) ==
    IF j + 1 < Len(cmds) THEN
        LET a == HandleArrowCommand(cmds[j + 2], tb, cl, cc)
        IN  St(tb, a.line, a.col, j + 1, FALSE)
    ELSE St(tb, cl, cc, j + 1, FALSE)

ArrowBranch(cmds, j, tb, cl, cc) ==
    IF j + 1 < Len(cmds) THEN
        LET a == HandleArrowCommand(cmds[j + 2], tb, cl, cc)
        IN  St(tb, a.line, a.col, j + 2, FALSE)
    ELSE St(tb, cl, cc, j + 1, FALSE)

NewlineBranch(j, tb, cl, cc) ==
    IF ~InRange(tb, cl) THEN St(tb, cl, cc, j, TRUE)
    ELSE LET current_line == tb[cl + 1]
             before_cursor == Upto(current_line, cc)
             after_cursor == From(current_line, cc)
         IN  St(SubSeq(tb, 1, cl) \o <<before_cursor, after_cursor>>
                    \o SubSeq(tb, cl + 2, Len(tb)),
                cl + 1, 0, j + 1, FALSE)

(* BackspaceBranch deleting the character under the cursor *)
BackspaceBranch_AtCursor(j, tb, cl, cc) ==
    IF cc > 0 /\ InRange(tb, cl) THEN
        St([tb EXCEPT ![cl + 1] = Upto(tb[cl + 1], cc) \o From(tb[cl + 1], cc + 1)],
           cl, cc - 1, j + 1, FALSE)
    ELSE St(tb, cl, cc, j + 1, FALSE)

BackspaceBranch(j, tb, cl, cc) ==
    IF cc > 0 THEN
        IF ~InRange(tb, cl) THEN St(tb, cl, cc, j, TRUE)
        ELSE LET line == tb[cl + 1]
             IN  St([tb EXCEPT ![cl + 1] = Upto(line, cc - 1) \o From(line, cc)],
                    cl, cc - 1, j + 1, FALSE)
    ELSE IF cl > 0 THEN
        IF ~InRange(tb, cl - 1) THEN St(tb, cl, cc, j, TRUE)
        ELSE LET prev_line == tb[cl]
                 current_line == IF cl < Len(tb) THEN tb[cl + 1] ELSE <<>>
                 joined == [tb EXCEPT ![cl] = prev_line \o current_line]
             IN  St(IF cl < Len(tb)
                        THEN SubSeq(joined, 1, cl) \o SubSeq(joined, cl + 2, Len(joined))
                        ELSE joined,
                    cl - 1, Len(prev_line), j + 1, FALSE)
    ELSE St(tb, cl, cc, j + 1, FALSE)

InsertBranch(j, tb, cl, cc, text) ==
    IF ~InRange(tb, cl) THEN St(tb, cl, cc, j, TRUE)
    ELSE LET line == tb[cl + 1]
         IN  St([tb EXCEPT ![cl + 1] = Upto(line, cc) \o text \o From(line, cc)],
                cl, cc + Len(text), j + 1, FALSE)

LoopBody(cmds, j, tb0, cl, cc) ==
    LET char == cmds[j + 1]
        tb == EnsureLines(tb0, cl)
    IN  IF char = BEL THEN ArrowBranch(cmds, j, tb, cl, cc)
        ELSE IF char = LF THEN NewlineBranch(j, tb, cl, cc)
        ELSE IF char = BS THEN BackspaceBranch(j, tb, cl, cc)
        ELSE IF char = TAB THEN InsertBranch(j, tb, cl, cc, Spaces(TabWidth))
        ELSE IF IsPrintable(char) THEN InsertBranch(j, tb, cl, cc, <<char>>)
        ELSE St(tb, cl, cc, j + 1, FALSE)

(* how the pass consumed the positions it advanced over *)
KindsOf(cmds, j) ==
    IF cmds[j + 1] = BEL
        THEN IF j + 1 < Len(cmds) THEN <<"marker", "directive">> ELSE <<"marker">>
        ELSE <<"normal">>

(* what follows the loop: the cursor indicator, then the trailing empty
   lines are removed *)
RECURSIVE PopEmpty(_)
PopEmpty(tb) ==
    IF Len(tb) > 1 /\ tb[Len(tb)] = <<>> THEN PopEmpty(SubSeq(tb, 1, Len(tb) - 1))
    ELSE tb

MarkedCol(line, cc) == Max(0, Min(cc, Len(line)))

(* AddCursor writing the indicator over the character under the cursor *)
AddCursor_Overwrite(tb, cl, cc) ==
    IF cl < Len(tb) THEN
        LET line == tb[cl + 1]
            col == MarkedCol(line, cc)
        IN  [tb EXCEPT ![cl + 1] = Upto(line, col) \o <<CursorGlyph>> \o From(line, col + 1)]
    ELSE Append(tb, <<CursorGlyph>>)

AddCursor(tb, cl, cc) ==
    IF cl < Len(tb) THEN
        LET line == tb[cl + 1]
            col == MarkedCol(line, cc)
        IN  [tb EXCEPT ![cl + 1] = Upto(line, col) \o <<CursorGlyph>> \o From(line, col)]
    ELSE Append(tb, <<CursorGlyph>>)

Returned(tb, cl, cc) == PopEmpty(AddCursor(tb, cl, cc))

----------------------------------------------------------------------------
(* tyrec.simulate_typing: the dispatch loop *)

(* the keys of arrow_actions *)
ArrowActionKeys ==
    {Ord(c) : c \in {"u", "d", "l", "r", "s", "S", "e", "b", "E", "B", "U", "D", "C", "z"}}

(* the keys still held after arrow_actions[char]() ran *)
ArrowAction(char, h) ==
    IF char = Ord("s") THEN h \cup {"shift"}
    ELSE IF char = Ord("S") THEN h \ {"shift"}
    ELSE IF char = Ord("u") THEN h \ {"up"}
    ELSE IF char = Ord("d") THEN h \ {"down"}
    ELSE IF char = Ord("l") THEN h \ {"left"}
    ELSE IF char = Ord("r") THEN h \ {"right"}
    ELSE IF char = Ord("e") THEN h \ {"end"}
    ELSE IF char = Ord("b") THEN h \ {"home"}
    ELSE IF char = Ord("E") THEN h \ {"end", "ctrl"}
    ELSE IF char = Ord("B") THEN h \ {"home", "ctrl"}
    ELSE IF char = Ord("U") THEN h \ {"page_up"}
    ELSE IF char = Ord("D") THEN h \ {"page_down"}
    ELSE IF char = Ord("C") THEN h \ {"esc"}
    ELSE h

(* handle_arrow_command: "exit" for Q, "ok" after an action, "error" for the
   ValueError of an unknown escape command *)
DispatchArrowCommand(char) ==
    IF char = Ord("Q") THEN "exit"
    ELSE IF char \in ArrowActionKeys THEN "ok"
    ELSE "error"

IsUpper(char) == Ord("A") <= char /\ char <= Ord("Z")

ShiftedChars ==
    {96, 34} \cup {Ord(c) : c \in {"~", "!", "@", "#", "$", "%", "^", "&", "*", "(", ")",
                                     "_", "+", "{", "}", "|", ":", "<", ">", "?"}}

(* handle_regular_char: every key it presses it releases; the shifted
   characters are typed inside keyboard.pressed(Key.shift), which releases
   shift on exit *)
HandleRegularChar(char, h) ==
    IF IsUpper(char) \/ char \in ShiftedChars THEN h \ {"shift"}
    ELSE IF char = LF THEN h \ {"enter"}
    ELSE IF char = BS THEN h \ {"backspace"}
    ELSE IF char = 32 THEN h \ {"space"}
    ELSE h

(* one pass of the while loop, LIVE_INPUT_MODE clear *)
DispatchBody(char, flag, h) ==
    IF flag THEN
        LET r == DispatchArrowCommand(char)
        IN  [flag |-> IF r = "exit" THEN FALSE ELSE flag,
             held |-> IF r = "ok" THEN ArrowAction(char, h) ELSE h,
             error |-> r = "error",
             kind |-> "directive"]
    ELSE IF char = BEL THEN
        [flag |-> TRUE, held |-> h, error |-> FALSE, kind |-> "marker"]
    ELSE
        [flag |-> flag, held |-> HandleRegularChar(char, h), error |-> FALSE,
         kind |-> "normal"]

----------------------------------------------------------------------------
(* Python string operations used by structured_capture.py *)

CR == 13

(* a local name assigned once: F evaluated with the value of v *)
Bind(v, F(_)) == CHOOSE r \in {F(x) : x \in {v}} : TRUE

(* str.isspace / the regex class \s, on the code points below 128 *)
IsSpace(c) == c \in {9, 10, 11, 12, 13, 28, 29, 30, 31, 32}

UpperChar(c) == IF 97 <= c /\ c <= 122 THEN c - 32 ELSE c

Upper(s) == Bind(s, LAMBDA t : [k \in 1..Len(t) |-> UpperChar(t[k])])

(* [A-Z] under re.IGNORECASE *)
IsLetter(c) == 65 <= UpperChar(c) /\ UpperChar(c) <= 90

(* s[a:b] for 0 <= a *)
Slice(s, a, b) ==
    Bind(s, LAMBDA t :
    Bind(a, LAMBDA from :
    Bind(b, LAMBDA to :
        IF to <= from THEN <<>> ELSE SubSeq(t, from + 1, Min(to, Len(t))))))

SetMax(S) == Bind(S, LAMBDA T : CHOOSE x \in T : \A y \in T : y <= x)
SetMin(S) == Bind(S, LAMBDA T : CHOOSE x \in T : \A y \in T : x <= y)

LStrip(s) ==
    Bind(s, LAMBDA t :
    Bind({k \in 1..Len(t) : ~IsSpace(t[k])}, LAMBDA black :
        IF black = {} THEN <<>> ELSE SubSeq(t, SetMin(black), Len(t))))

RStrip(s) ==
    Bind(s, LAMBDA t :
    Bind({k \in 1..Len(t) : ~IsSpace(t[k])}, LAMBDA black :
        IF black = {} THEN <<>> ELSE SubSeq(t, 1, SetMax(black))))

Strip(s) == RStrip(LStrip(s))

(* s.split(sep) for a one-character separator *)
RECURSIVE SplitOn(_, _)
SplitOn(s, sep) ==
    Bind(s, LAMBDA t :
    Bind({k \in 1..Len(t) : t[k] = sep}, LAMBDA seps :
        IF seps = {} THEN <<t>>
        ELSE Bind(SetMin(seps), LAMBDA k :
                 <<SubSeq(t, 1, k - 1)>> \o SplitOn(SubSeq(t, k + 1, Len(t)), sep))))

(* sep.join(parts) *)
RECURSIVE Join(_, _)
Join(parts, sep) ==
    Bind(parts, LAMBDA ps :
        IF Len(ps) = 0 THEN <<>>
        ELSE IF Len(ps) = 1 THEN ps[1]
        ELSE ps[1] \o sep \o Join(Tail(ps), sep))

(* s.split(): the maximal runs of non-whitespace characters *)
RECURSIVE SplitWords(_)
SplitWords(s) ==
    Bind(LStrip(s), LAMBDA t :
    Bind({k \in 1..Len(t) : IsSpace(t[k])}, LAMBDA white :
        IF t = <<>> THEN <<>>
        ELSE Bind(IF white = {} THEN Len(t) ELSE SetMin(white) - 1, LAMBDA n :
                 <<SubSeq(t, 1, n)>> \o SplitWords(SubSeq(t, n + 1, Len(t))))))

StartsWith(s, prefix) ==
    Bind(s, LAMBDA t :
        Len(t) >= Len(prefix) /\ SubSeq(t, 1, Len(prefix)) = prefix)

(* Repeat with the count ignored *)
Repeat_Once(s, count) == s

(* s * count *)
RECURSIVE Repeat(_, _)
Repeat(s, count) ==
    Bind(s, LAMBDA t :
    Bind(count, LAMBDA n :
        IF n <= 0 THEN <<>> ELSE t \o Repeat(t, n - 1)))

IsDigit(c) == 48 <= c /\ c <= 57

RECURSIVE DigitsValue(_, _)
DigitsValue(s, acc) ==
    Bind(s, LAMBDA t :
    Bind(acc, LAMBDA n :
        IF t = <<>> THEN n
        ELSE IF Head(t) = 95 THEN DigitsValue(Tail(t), n)
        ELSE DigitsValue(Tail(t), 10 * n + (Head(t) - 48))))

(* ParseInt taking every token for the count 1 *)
ParseInt_Lenient(token) == [ok |-> TRUE, value |-> 1]

(* int(token): an optional sign, then digits, single underscores allowed
   between digits; anything else is a ValueError *)
ParseInt(token) ==
    Bind(token, LAMBDA tok :
        LET signed == tok # <<>> /\ tok[1] \in {43, 45}
            body == IF signed THEN Tail(tok) ELSE tok
            wellformed ==
                /\ body # <<>>
                /\ \A k \in 1..Len(body) : IsDigit(body[k]) \/ body[k] = 95
                /\ IsDigit(body[1]) /\ IsDigit(body[Len(body)])
                /\ \A k \in 1..(Len(body) - 1) : ~(body[k] = 95 /\ body[k + 1] = 95)
        IN  IF ~wellformed THEN [ok |-> FALSE, value |-> 0]
            ELSE Bind(DigitsValue(body, 0), LAMBDA value :
                     [ok |-> TRUE,
                      value |-> IF signed /\ tok[1] = 45 THEN 0 - value ELSE value]))

(* open(filepath, 'r').read(): universal newlines *)
ReadText(s) ==
    Bind(s, LAMBDA t :
    Bind(SelectSeq([k \in 1..Len(t) |-> k],
                   LAMBDA k : ~(t[k] = LF /\ k > 1 /\ t[k - 1] = CR)), LAMBDA kept :
        SubSeq([m \in 1..Len(kept) |-> IF t[kept[m]] = CR THEN LF ELSE t[kept[m]]],
               1, Len(kept))))

----------------------------------------------------------------------------
(* StructuredParser._split_into_sections: the matches of section_pattern
     <(CODE|COMMANDS)(?:\s*:\s*([A-Z]+))?\s*>\s*\n(.*?)\n\s*</\1(?:\s*:\s*[A-Z]+)?>
   under re.DOTALL | re.IGNORECASE.  Positions are Python indices. *)

kCODE == Str("CODE")
kCOMMANDS == Str("COMMANDS")
kTEXT == Str("TEXT")
kLT == Ord("<")
kGT == Ord(">")
kSLASH == Ord("/")
kCOLON == Ord(":")
kHASH == Ord("#")

CharAt(content, p) ==
    Bind(p, LAMBDA at : IF at < Len(content) THEN content[at + 1] ELSE -1)

(* the literal at position p, letters compared without case *)
MatchesAt(content, p, lit) ==
    Bind(p, LAMBDA at :
    Bind(lit, LAMBDA word :
        /\ at + Len(word) <= Len(content)
        /\ \A k \in 1..Len(word) : UpperChar(content[at + k]) = UpperChar(word[k])))

(* the end of the run of white space, of letters, that starts at p *)
SkipSpace(content, p) ==
    Bind(p, LAMBDA at :
        IF at >= Len(content) THEN at
        ELSE SetMin({q \in at..Len(content) :
                         q = Len(content) \/ ~IsSpace(content[q + 1])}))

SkipLetters(content, p) ==
    Bind(p, LAMBDA at :
        IF at >= Len(content) THEN at
        ELSE SetMin({q \in at..Len(content) :
                         q = Len(content) \/ ~IsLetter(content[q + 1])}))

(* (?:\s*:\s*([A-Z]+))? at p: where it ends and the letters it captured; the
   group matches the longest run or nothing *)
ToolSuffix(content, p) ==
    Bind(p, LAMBDA at :
    Bind(SkipSpace(content, at), LAMBDA q :
    Bind(SkipSpace(content, q + 1), LAMBDA r :
    Bind(SkipLetters(content, r), LAMBDA e :
        IF CharAt(content, q) = kCOLON /\ e > r
            THEN [present |-> TRUE, end |-> e, tool |-> Slice(content, r, e)]
            ELSE [present |-> FALSE, end |-> at, tool |-> <<>>]))))

(* <(CODE|COMMANDS)(?:\s*:\s*([A-Z]+))?\s*> at p *)
OpenTagAt(content, p) ==
    Bind(IF MatchesAt(content, p + 1, kCODE) THEN kCODE
         ELSE IF MatchesAt(content, p + 1, kCOMMANDS) THEN kCOMMANDS
         ELSE <<>>, LAMBDA kind :
        IF CharAt(content, p) # kLT \/ kind = <<>> THEN [ok |-> FALSE]
        ELSE
            Bind(p + 1 + Len(kind), LAMBDA k :
            Bind(ToolSuffix(content, k), LAMBDA suffix :
            Bind(SkipSpace(content, suffix.end), LAMBDA withTool :
            Bind(SkipSpace(content, k), LAMBDA without :
                IF suffix.present /\ CharAt(content, withTool) = kGT THEN
                    [ok |-> TRUE, kind |-> kind, group1 |-> Slice(content, p + 1, k),
                     hasTool |-> TRUE, tool |-> suffix.tool, end |-> withTool + 1]
                ELSE IF CharAt(content, without) = kGT THEN
                    [ok |-> TRUE, kind |-> kind, group1 |-> Slice(content, p + 1, k),
                     hasTool |-> FALSE, tool |-> <<>>, end |-> without + 1]
                ELSE [ok |-> FALSE])))))

(* \n\s*</\1(?:\s*:\s*[A-Z]+)?> at e: the position after the match, or -1 *)
CloseTagAt(content, e, group1) ==
    IF CharAt(content, e) # LF THEN -1
    ELSE
        Bind(SkipSpace(content, e + 1), LAMBDA q :
        Bind(q + 2 + Len(group1), LAMBDA k :
            IF /\ CharAt(content, q) = kLT
               /\ CharAt(content, q + 1) = kSLASH
               /\ MatchesAt(content, q + 2, group1)
            THEN Bind(ToolSuffix(content, k), LAMBDA suffix :
                     IF suffix.present /\ CharAt(content, suffix.end) = kGT
                         THEN suffix.end + 1
                     ELSE IF CharAt(content, k) = kGT THEN k + 1
                     ELSE -1)
            ELSE -1))

(* the whole pattern at p.  After the open tag, \s* is greedy: the \n of the
   pattern is the last newline of the white run for which a close tag is still
   found; (.*?) is lazy: the content ends at the first close tag after it. *)
MatchAt(content, p) ==
    Bind(OpenTagAt(content, p), LAMBDA open :
        IF ~open.ok THEN [ok |-> FALSE]
        ELSE
            Bind(SkipSpace(content, open.end), LAMBDA w :
            Bind({e \in 0..(Len(content) - 1) :
                      CloseTagAt(content, e, open.group1) >= 0}, LAMBDA closes :
            Bind({n \in open.end..(w - 1) :
                      content[n + 1] = LF /\ \E e \in closes : e >= n + 1},
                 LAMBDA newlines :
                IF newlines = {} THEN [ok |-> FALSE]
                ELSE
                    Bind(SetMax(newlines) + 1, LAMBDA c0 :
                    Bind(SetMin({x \in closes : x >= c0}), LAMBDA e :
                        [ok |-> TRUE, start |-> p,
                         type |-> open.kind,
                         tool |-> IF open.hasTool THEN Upper(open.tool) ELSE <<>>,
                         hasTool |-> open.hasTool,
                         content |-> Slice(content, c0, e),
                         end |-> CloseTagAt(content, e, open.group1)]))))))

Section(type, content, hasTool, tool) ==
    [type |-> type, content |-> content, hasTool |-> hasTool, tool |-> tool]

TextSection(text) ==
    Bind(Strip(text), LAMBDA stripped :
        IF stripped # <<>> THEN <<Section(kTEXT, stripped, FALSE, <<>>)>> ELSE <<>>)

(* re.finditer from last_end on, with the text between the matches *)
RECURSIVE SectionsFrom(_, _)
SectionsFrom(content, last_end) ==
    Bind(last_end, LAMBDA from :
    Bind({p \in from..(Len(content) - 1) : MatchAt(content, p).ok}, LAMBDA starts :
        IF starts = {} THEN TextSection(Slice(content, from, Len(content)))
        ELSE Bind(MatchAt(content, SetMin(starts)), LAMBDA m :
                 TextSection(Slice(content, from, m.start))
                 \o <<Section(m.type, m.content, m.hasTool, m.tool)>>
                 \o SectionsFrom(content, m.end))))

SplitIntoSections(content) == Bind(content, LAMBDA text : SectionsFrom(text, 0))

----------------------------------------------------------------------------
(* StructuredParser.__init__: the command tables, in dictionary order *)

Esc(c) == <<BEL, Ord(c)>>

generic_commands ==
    << <<Str("ARROW_UP"), Esc("u")>>,
       <<Str("ARROW_DOWN"), Esc("d")>>,
       <<Str("ARROW_LEFT"), Esc("l")>>,
       <<Str("ARROW_RIGHT"), Esc("r")>>,
       <<Str("SHIFT_PRESS"), Esc("s")>>,
       <<Str("SHIFT_RELEASE"), Esc("S")>>,
       <<Str("END"), Esc("e")>>,
       <<Str("HOME"), Esc("b")>>,
       <<Str("CTRL_END"), Esc("E")>>,
       <<Str("CTRL_HOME"), Esc("B")>>,
       <<Str("PAGE_UP"), Esc("U")>>,
       <<Str("PAGE_DOWN"), Esc("D")>>,
       <<Str("ESCAPE"), Esc("C")>>,
       <<Str("BACKSPACE"), <<BS>>>>,
       <<Str("ENTER"), <<LF>>>>,
       <<Str("SLEEP"), Esc("z")>>,
       <<Str("EXIT_ARROW_MODE"), Esc("Q")>> >>

vim_commands ==
    << <<Str("NORMAL_MODE"), Esc("C")>>,
       <<Str("INSERT_MODE"), Str("i")>>,
       <<Str("APPEND_MODE"), Str("a")>>,
       <<Str("VISUAL_MODE"), Str("v")>>,
       <<Str("COMMAND_MODE"), Str(":")>>,
       <<Str("SAVE"), Str(":w") \o <<LF>>>>,
       <<Str("QUIT"), Str(":q") \o <<LF>>>>,
       <<Str("SAVE_QUIT"), Str(":wq") \o <<LF>>>>,
       <<Str("FORCE_QUIT"), Str(":q!") \o <<LF>>>>,
       <<Str("DELETE_LINE"), Str("dd")>>,
       <<Str("YANK_LINE"), Str("yy")>>,
       <<Str("PASTE"), Str("p")>>,
       <<Str("UNDO"), Str("u")>>,
       <<Str("REDO"), Esc("r")>>,
       <<Str("WORD_FORWARD"), Str("w")>>,
       <<Str("WORD_BACKWARD"), Str("b")>>,
       <<Str("LINE_END"), Str("$")>>,
       <<Str("LINE_START"), Str("0")>>,
       <<Str("FILE_TOP"), Str("gg")>>,
       <<Str("FILE_BOTTOM"), Str("G")>> >>

shell_commands ==
    << <<Str("CLEAR"), Str("clear") \o <<LF>>>>,
       <<Str("CTRL_C"), <<BEL>>>>,
       <<Str("CTRL_D"), <<BEL>>>>,
       <<Str("TAB_COMPLETE"), <<TAB>>>>,
       <<Str("HISTORY_UP"), Esc("u")>>,
       <<Str("HISTORY_DOWN"), Esc("d")>>,
       <<Str("MOVE_TO_START"), Esc("b")>>,
       <<Str("MOVE_TO_END"), Esc("e")>>,
       <<Str("DELETE_WORD"), <<BEL>>>>,
       <<Str("KILL_LINE"), <<BEL>>>> >>

vscode_commands ==
    << <<Str("SAVE"), Esc("s")>>,
       <<Str("COPY"), Esc("c")>>,
       <<Str("PASTE"), Esc("v")>>,
       <<Str("UNDO"), Esc("z")>>,
       <<Str("REDO"), Esc("y")>>,
       <<Str("FIND"), Esc("f")>>,
       <<Str("COMMENT"), Esc("/")>>,
       <<Str("FORMAT"), Esc("S") \o Esc("f")>>,
       <<Str("COMMAND_PALETTE"), Esc("S") \o Esc("p")>> >>

python_commands ==
    << <<Str("IMPORT_NUMPY"), Str("import numpy as np") \o <<LF>>>>,
       <<Str("IMPORT_PANDAS"), Str("import pandas as pd") \o <<LF>>>>,
       <<Str("IMPORT_MATPLOTLIB"), Str("import matplotlib.pyplot as plt") \o <<LF>>>>,
       <<Str("PRINT_DEBUG"),
         Str("print(f") \o <<34>> \o Str("DEBUG: {}") \o <<34>> \o Str("))")
             \o <<BEL>> \o Str("lllll")>>,
       <<Str("IF_NAME_MAIN"),
         Str("if __name__ == ") \o <<34>> \o Str("__main__") \o <<34>> \o Str(":")
             \o <<LF>> \o Str("    ")>>,
       <<Str("TRY_EXCEPT"),
         Str("try:") \o <<LF>> \o Str("    ") \o <<LF>> \o Str("except Exception as e:")
             \o <<LF>> \o Str("    print(f") \o <<34>> \o Str("Error: {e}") \o <<34>>
             \o Str(")") \o <<BEL>> \o Str("uuuu") \o <<BEL>> \o Str("e")>> >>

tool_specific_commands ==
    << <<Str("VIM"), vim_commands>>,
       <<Str("SHELL"), shell_commands>>,
       <<Str("VSCODE"), vscode_commands>>,
       <<Str("PYTHON"), python_commands>> >>

(* key in table, table[key] *)
HasKey(table, key) ==
    Bind(table, LAMBDA t :
    Bind(key, LAMBDA name : \E k \in 1..Len(t) : t[k][1] = name))

Lookup(table, key) ==
    Bind(table, LAMBDA t :
    Bind(key, LAMBDA name : t[CHOOSE k \in 1..Len(t) : t[k][1] = name][2]))

(* IsRegisteredTool with no tool registered *)
IsRegisteredTool_Never(sec) == FALSE

(* tool_specifier and tool_specifier in self.tool_specific_commands *)
IsRegisteredTool(sec) ==
    sec.hasTool /\ sec.tool # <<>> /\ HasKey(tool_specific_commands, sec.tool)

----------------------------------------------------------------------------
(* StructuredParser._process_code_section and _expand_tool_shortcuts *)

IsBlank(line) == Strip(line) = <<>>

Indent(line) == Bind(line, LAMBDA l : Len(l) - Len(LStrip(l)))

MinIndent(lines) ==
    Bind(lines, LAMBDA ls : SetMin({Indent(ls[k]) : k \in 1..Len(ls)}))

(* re.sub of the literal pattern by the expansion, left to right; the
   expansions hold no backslash, so the template is the text itself *)
RECURSIVE ReplaceAll(_, _, _)
ReplaceAll(content, pattern, expansion) ==
    Bind(content, LAMBDA text :
    Bind(pattern, LAMBDA pat :
    Bind({k \in 1..(Len(text) - Len(pat) + 1) :
              SubSeq(text, k, k + Len(pat) - 1) = pat}, LAMBDA found :
        IF found = {} THEN text
        ELSE Bind(SetMin(found), LAMBDA k :
                 SubSeq(text, 1, k - 1) \o expansion
                 \o ReplaceAll(SubSeq(text, k + Len(pat), Len(text)), pat, expansion)))))

RECURSIVE ExpandFrom(_, _, _)
ExpandFrom(content, table, k) ==
    Bind(content, LAMBDA text :
    Bind(k, LAMBDA n :
        IF n > Len(table) THEN text
        ELSE ExpandFrom(ReplaceAll(text, Str("{{") \o table[n][1] \o Str("}}"),
                                   table[n][2]),
                        table, n + 1)))

(* ExpandToolShortcuts with the tables of all tools *)
ExpandToolShortcuts_AllTools(content, tool) ==
    ExpandFrom(ExpandFrom(ExpandFrom(ExpandFrom(content, vim_commands, 1),
                                     shell_commands, 1),
                          vscode_commands, 1),
               python_commands, 1)

ExpandToolShortcuts(content, tool) ==
    IF ~HasKey(tool_specific_commands, tool) THEN content
    ELSE Bind(Lookup(tool_specific_commands, tool), LAMBDA table :
             ExpandFrom(content, table, 1))

(* ProcessCodeSection without the removal of the common indentation *)
ProcessCodeSection_NoDedent(sec) == sec.content

ProcessCodeSection(sec) ==
    Bind(SplitOn(sec.content, LF), LAMBDA lines :
    Bind(SelectSeq(lines, LAMBDA l : ~IsBlank(l)), LAMBDA non_empty_lines :
        IF non_empty_lines = <<>> THEN sec.content
        ELSE
            Bind(MinIndent(non_empty_lines), LAMBDA min_indent :
            Bind([k \in 1..Len(lines) |->
                     IF ~IsBlank(lines[k])
                         THEN IF Len(lines[k]) >= min_indent
                                  THEN From(lines[k], min_indent) ELSE lines[k]
                         ELSE <<>>], LAMBDA dedented_lines :
            Bind(Join(dedented_lines, <<LF>>), LAMBDA processed_content :
                IF IsRegisteredTool(sec)
                    THEN ExpandToolShortcuts(processed_content, sec.tool)
                    ELSE processed_content)))))

----------------------------------------------------------------------------
(* StructuredParser._process_commands_section *)

IsComment(line) == StartsWith(Strip(line), <<kHASH>>)

(* RepeatableCommands with HOME among them *)
RepeatableCommands_WithHome ==
    {Str("ARROW_UP"), Str("ARROW_DOWN"), Str("ARROW_LEFT"), Str("ARROW_RIGHT"),
     Str("BACKSPACE"), Str("ENTER"), Str("HOME")}

RepeatableCommands ==
    {Str("ARROW_UP"), Str("ARROW_DOWN"), Str("ARROW_LEFT"), Str("ARROW_RIGHT"),
     Str("BACKSPACE"), Str("ENTER")}

kSLEEP == Str("SLEEP")

DedentCommandLines(lines) ==
    Bind(lines, LAMBDA ls :
    Bind(SelectSeq(ls, LAMBDA l : ~IsBlank(l) /\ ~IsComment(l)), LAMBDA non_empty_lines :
        IF non_empty_lines = <<>> THEN ls
        ELSE Bind(MinIndent(non_empty_lines), LAMBDA min_indent :
                 [k \in 1..Len(ls) |->
                     IF ~IsBlank(ls[k]) THEN
                         IF IsComment(ls[k]) THEN Strip(ls[k])
                         ELSE IF Len(ls[k]) >= min_indent THEN From(ls[k], min_indent)
                         ELSE ls[k]
                     ELSE <<>>])))

(* table.update(other): the values of the keys table has are replaced in
   place, the other keys are added at the end *)
DictUpdate(table, other) ==
    [k \in 1..Len(table) |->
        IF HasKey(other, table[k][1]) THEN <<table[k][1], Lookup(other, table[k][1])>>
        ELSE table[k]]
    \o SelectSeq(other, LAMBDA e : ~HasKey(table, e[1]))

(* GenericAfterUpdate with command_map the instance's table itself, no copy *)
GenericAfterUpdate_Aliased(table, sec) ==
    IF IsRegisteredTool(sec)
        THEN DictUpdate(table, Lookup(tool_specific_commands, sec.tool))
        ELSE table

(* what self.generic_commands holds after
     command_map = self.generic_commands.copy()
     command_map.update(self.tool_specific_commands[tool_specifier])
   the update goes to the copy *)
GenericAfterUpdate(table, sec) == table

(* command in command_map, command_map[command]: the instance's generic table
   updated with the table of a registered tool *)
InCommandMap(sec, command) ==
    \/ HasKey(self_generic_commands, command)
    \/ IsRegisteredTool(sec) /\ HasKey(Lookup(tool_specific_commands, sec.tool), command)

CommandMap(sec, command) ==
    IF IsRegisteredTool(sec) /\ HasKey(Lookup(tool_specific_commands, sec.tool), command)
        THEN Lookup(Lookup(tool_specific_commands, sec.tool), command)
        ELSE Lookup(self_generic_commands, command)

(* ProcessCommandLine warning about every count other than 1 *)
ProcessCommandLine_WarnUnlessOne(sec, raw) ==
    Bind(Strip(raw), LAMBDA line :
        IF line = <<>> \/ StartsWith(line, <<kHASH>>) THEN [out |-> <<>>, warn |-> <<>>]
        ELSE
            Bind(SplitWords(line), LAMBDA parts :
            Bind(Upper(parts[1]), LAMBDA command :
            Bind(IF Len(parts) > 1 THEN ParseInt(parts[2])
                 ELSE [ok |-> TRUE, value |-> 1], LAMBDA parsed :
                IF ~parsed.ok THEN
                    [out |-> <<>>, warn |-> <<[kind |-> "invalid", line |-> line]>>]
                ELSE IF InCommandMap(sec, command) THEN
                    Bind(CommandMap(sec, command), LAMBDA escape_seq :
                        IF command \in RepeatableCommands THEN
                            [out |-> Repeat(escape_seq, parsed.value), warn |-> <<>>]
                        ELSE IF command = kSLEEP THEN
                            [out |-> Repeat(escape_seq, parsed.value), warn |-> <<>>]
                        ELSE [out |-> escape_seq,
                              warn |-> IF parsed.value # 1
                                           THEN <<[kind |-> "norepeat", line |-> line]>>
                                           ELSE <<>>])
                ELSE [out |-> <<>>, warn |-> <<[kind |-> "unknown", line |-> line]>>]))))

(* one pass of the for loop over the lines: what is appended to result and
   the warning printed, if any *)
ProcessCommandLine(sec, raw) ==
    Bind(Strip(raw), LAMBDA line :
        IF line = <<>> \/ StartsWith(line, <<kHASH>>) THEN [out |-> <<>>, warn |-> <<>>]
        ELSE
            Bind(SplitWords(line), LAMBDA parts :
            Bind(Upper(parts[1]), LAMBDA command :
            Bind(IF Len(parts) > 1 THEN ParseInt(parts[2])
                 ELSE [ok |-> TRUE, value |-> 1], LAMBDA parsed :
                IF ~parsed.ok THEN
                    [out |-> <<>>, warn |-> <<[kind |-> "invalid", line |-> line]>>]
                ELSE IF InCommandMap(sec, command) THEN
                    Bind(CommandMap(sec, command), LAMBDA escape_seq :
                        IF command \in RepeatableCommands THEN
                            [out |-> Repeat(escape_seq, parsed.value), warn |-> <<>>]
                        ELSE IF command = kSLEEP THEN
                            [out |-> Repeat(escape_seq, parsed.value), warn |-> <<>>]
                        ELSE [out |-> escape_seq,
                              warn |-> IF parsed.value > 1
                                           THEN <<[kind |-> "norepeat", line |-> line]>>
                                           ELSE <<>>])
                ELSE [out |-> <<>>, warn |-> <<[kind |-> "unknown", line |-> line]>>]))))

RECURSIVE CommandLinesFrom(_, _, _)
CommandLinesFrom(sec, lines, k) ==
    Bind(k, LAMBDA n :
        IF n > Len(lines) THEN [out |-> <<>>, warn |-> <<>>]
        ELSE
            Bind(ProcessCommandLine(sec, lines[n]), LAMBDA first :
            Bind(CommandLinesFrom(sec, lines, n + 1), LAMBDA rest :
                [out |-> first.out \o rest.out, warn |-> first.warn \o rest.warn])))

ProcessCommandsSection(sec) ==
    Bind(DedentCommandLines(SplitOn(Strip(sec.content), LF)), LAMBDA lines :
        CommandLinesFrom(sec, lines, 1))

----------------------------------------------------------------------------
(* StructuredParser.parse_structured_file *)

ProcessSection(sec) ==
    IF sec.type = kCODE THEN [out |-> ProcessCodeSection(sec), warn |-> <<>>]
    ELSE IF sec.type = kCOMMANDS THEN ProcessCommandsSection(sec)
    ELSE [out |-> sec.content, warn |-> <<>>]

(* ProcessSections with a line break between the outputs of the sections *)
ProcessSections_Separated(sections, k) ==
    [out |-> Join([n \in 1..Len(sections) |-> ProcessSection(sections[n]).out], <<LF>>),
     warn |-> <<>>]

RECURSIVE ProcessSections(_, _)
ProcessSections(sections, k) ==
    Bind(k, LAMBDA n :
        IF n > Len(sections) THEN [out |-> <<>>, warn |-> <<>>]
        ELSE
            Bind(ProcessSection(sections[n]), LAMBDA first :
            Bind(ProcessSections(sections, n + 1), LAMBDA rest :
                [out |-> first.out \o rest.out, warn |-> first.warn \o rest.warn])))

ParseStructuredFile(text) ==
    Bind(SplitIntoSections(ReadText(text)), LAMBDA sections :
        ProcessSections(sections, 1))

(* self.generic_commands after the sections were processed *)
RECURSIVE GenericAfterSections(_, _, _)
GenericAfterSections(table, sections, k) ==
    Bind(k, LAMBDA n :
        IF n > Len(sections) THEN table
        ELSE GenericAfterSections(
                 IF sections[n].type = kCOMMANDS
                     THEN GenericAfterUpdate(table, sections[n]) ELSE table,
                 sections, n + 1))

(* self.generic_commands after parse_structured_file returned *)
GenericAfterParse(text) ==
    Bind(SplitIntoSections(ReadText(text)), LAMBDA sections :
        GenericAfterSections(self_generic_commands, sections, 1))

----------------------------------------------------------------------------
(* StructEditor._build_partial_content.  Indices are Python indices:
   lines[i] is the TLA+ ls[at + 1] for at = i. *)

kOpenCode == Str("<CODE")
kOpenCommands == Str("<COMMANDS")

(* the condition of both while loops with every index in reach *)
InReach_Whole(ls, cutoff, at) == at < Len(ls)

(* i <= up_to_line and i < len(lines) *)
InReach(ls, cutoff, at) == at <= cutoff /\ at < Len(ls)

EndsWith(s, suffix) ==
    Bind(s, LAMBDA t :
        Len(t) >= Len(suffix) /\ SubSeq(t, Len(t) - Len(suffix) + 1, Len(t)) = suffix)

(* line.startswith('<CODE') or line.startswith('<COMMANDS') *)
IsSectionStart(line) == StartsWith(line, kOpenCode) \/ StartsWith(line, kOpenCommands)

(* the branch of a section start at index at: the open tag, then the inner loop up
   to the closing tag or the end of reach, then the temporary closing tag *)
SectionBranch(ls, cutoff, at) ==
    Bind(IF StartsWith(Strip(ls[at + 1]), kOpenCode) THEN kCODE ELSE kCOMMANDS,
         LAMBDA section_type :
    Bind(Str("</") \o section_type, LAMBDA closing_tag :
    Bind({j \in (at + 1)..(Len(ls) - 1) :
              \A m \in (at + 1)..j : InReach(ls, cutoff, m)}, LAMBDA reach :
    Bind({j \in reach : StartsWith(Strip(ls[j + 1]), closing_tag)}, LAMBDA ends :
        IF ends # {} THEN
            \* section_end_found: the content and the closing tag line
            [out |-> SubSeq(ls, at + 1, SetMin(ends) + 1), next |-> SetMin(ends) + 1]
        ELSE
            Bind(IF reach = {} THEN <<>> ELSE SubSeq(ls, at + 2, SetMax(reach) + 1),
                 LAMBDA section_content_lines :
                [out |-> <<ls[at + 1]>> \o
                         (IF section_content_lines # <<>>
                              THEN section_content_lines
                                   \o <<Str("</") \o section_type \o Str(">")>>
                              ELSE <<>>),
                 next |-> at + 1 + Len(section_content_lines)])))))

(* the branch of a standalone closing tag, the line copied *)
OrphanBranch_Copied(ls, at) == [out |-> <<ls[at + 1]>>, next |-> at + 1]

(* the branch of a standalone closing tag: skipped *)
OrphanBranch(ls, at) == [out |-> <<>>, next |-> at + 1]

(* the last branch: only non-tag content is included *)
PlainBranch(ls, at) ==
    Bind(Strip(ls[at + 1]), LAMBDA line :
        [out |-> IF ~(StartsWith(line, <<kLT>>) /\ EndsWith(line, <<kGT>>))
                     THEN <<ls[at + 1]>> ELSE <<>>,
         next |-> at + 1])

(* one pass of the outer while loop *)
PartialStep(ls, cutoff, at) ==
    Bind(Strip(ls[at + 1]), LAMBDA line :
        IF IsSectionStart(line) THEN SectionBranch(ls, cutoff, at)
        ELSE IF StartsWith(line, Str("</")) THEN OrphanBranch(ls, at)
        ELSE PlainBranch(ls, at))

RECURSIVE ResultLinesFrom(_, _, _)
ResultLinesFrom(ls, cutoff, at) ==
    Bind(at, LAMBDA from :
        IF ~InReach(ls, cutoff, from) THEN <<>>
        ELSE Bind(PartialStep(ls, cutoff, from), LAMBDA step :
                 step.out \o ResultLinesFrom(ls, cutoff, step.next)))

(* '\n'.join(result_lines) *)
BuildPartialContent(ls, cutoff) == Join(ResultLinesFrom(ls, cutoff, 0), <<LF>>)

----------------------------------------------------------------------------
(* Bounds and inputs *)

MaxLen == 3

Units ==
    {BEL, BS, TAB, LF, 1} \cup
    {Ord(c) : c \in {"u", "d", "l", "r", "b", "e", "B", "E", "U", "D", "Q", "x"}}

Streams == UNION {[1..n -> Units] : n \in 0..MaxLen}

MaxLines == 3
MaxLineLen == 2

TextChars == {32, Ord("a")}

TextLines == UNION {[1..n -> TextChars] : n \in 0..MaxLineLen}

Texts == UNION {[1..n -> TextLines] : n \in 1..MaxLines}

(* a file holding one CODE section whose lines are the given ones *)
CodeScript(lines) ==
    Str("<CODE>") \o <<LF>> \o Join(lines, <<LF>>) \o <<LF>> \o Str("</CODE>")

(* the script of TestBasicCommands.test_simple_edit *)
SimpleEditScript ==
    Join(<< Str("<CODE>"),
            Str("    Hello World"),
            Str("</CODE>"),
            <<>>,
            Str("<COMMANDS>"),
            Str("    ARROW_LEFT 5"),
            Str("    BACKSPACE 5"),
            Str("</COMMANDS>"),
            <<>>,
            Str("<CODE>"),
            Str("    Beautiful"),
            Str("</CODE>") >>, <<LF>>)

Scripts == {SimpleEditScript} \cup {CodeScript(lines) : lines \in Texts}

MaxSourceLines == 3

(* lines of a script: tags of both kinds and both cases, and a text line *)
SourceLineTexts ==
    {Str("<CODE>"), Str("</CODE>"), Str("<COMMANDS>"), Str("<code>"), Str("</code>"),
     Str("x")}

Sources == UNION {[1..n -> SourceLineTexts] : n \in 1..MaxSourceLines}

MaxCmdLines == 2

(* lines of a Commands section: unknown, repeatable, not repeatable, tool
   specific, with and without a count, with a count that is no integer *)
CommandLineTexts ==
    {Str("FOO"), Str("ENTER 2"), Str("HOME 2"), Str("SLEEP 2"), Str("HISTORY_UP 2"),
     Str("REDO"), Str("ARROW_LEFT x"), Str("end")}

(* what follows COMMANDS in the open tag *)
ToolTags == {<<>>, Str(": vim"), Str(": SHELL"), Str(": NOPE")}

CommandSections == UNION {[1..n -> CommandLineTexts] : n \in 1..MaxCmdLines}

(* a file holding one COMMANDS section, with or without its close tag *)
CommandScript(tag, cmdlines, closed) ==
    Join(<<Str("<COMMANDS") \o tag \o Str(">")>> \o cmdlines
             \o (IF closed THEN <<Str("</COMMANDS>")>> ELSE <<>>), <<LF>>)

CommandScripts ==
    {CommandScript(tag, cmdlines, TRUE) : tag \in ToolTags, cmdlines \in CommandSections}
    \cup {CommandScript(<<>>, cmdlines, FALSE) : cmdlines \in CommandSections}

(* the keys of a table *)
TableNames(table) == {table[k][1] : k \in 1..Len(table)}

(* what follows the kind in the open tag: no tool, or a registered one *)
EntryTags ==
    {<<>>} \cup {Str(": ") \o tool_specific_commands[t][1] :
                    t \in 1..Len(tool_specific_commands)}

(* the table a section with that open tag looks its names up in *)
TableOfTag(tag) ==
    IF tag = <<>> THEN <<>> ELSE Lookup(tool_specific_commands, SubSeq(tag, 3, Len(tag)))

(* a file with a COMMANDS section of one command, then a CODE section with
   the text x *)
EntryScript(tag, name) ==
    Join(<< Str("<COMMANDS") \o tag \o Str(">"), name, Str("</COMMANDS>"),
            Str("<CODE>"), Str("x"), Str("</CODE>") >>, <<LF>>)

(* every name of the command map, under every open tag *)
EntryScripts ==
    UNION {{EntryScript(tag, name) :
                name \in TableNames(generic_commands) \cup TableNames(TableOfTag(tag))} :
           tag \in EntryTags}

(* open tags of a CODE section: no tool, registered tools in either case, an
   unregistered tool *)
MacroTags == EntryTags \cup {Str(": vim"), Str(": NOPE")}

(* names of shortcuts: those of the tool tables, a generic command, a name in
   lower case *)
MacroNames ==
    UNION {TableNames(tool_specific_commands[t][2]) :
               t \in 1..Len(tool_specific_commands)}
    \cup {Str("ENTER"), Str("save")}

(* a file with a CODE section whose text is x{{NAME}}x *)
MacroScript(tag, name) ==
    Join(<< Str("<CODE") \o tag \o Str(">"),
            Str("x{{") \o name \o Str("}}x"),
            Str("</CODE>") >>, <<LF>>)

MacroScripts == {MacroScript(tag, name) : tag \in MacroTags, name \in MacroNames}

(* the text abcdefgh, the cursor brought to column 0, then ARROW_RIGHT 5 and
   BACKSPACE 2 *)
RightBackspaceScript ==
    Join(<< Str("<CODE>"),
            Str("abcdefgh"),
            Str("</CODE>"),
            Str("<COMMANDS>"),
            Str("    HOME"),
            Str("    ARROW_RIGHT 5"),
            Str("    BACKSPACE 2"),
            Str("</COMMANDS>") >>, <<LF>>)

(* commands of the generic table, of the tool tables, of both, of neither *)
TwiceLineTexts == {Str("ENTER"), Str("REDO"), Str("HISTORY_UP"), Str("SAVE"), Str("FOO")}

TwiceTags == {<<>>, Str(": vim"), Str(": SHELL"), Str(": VSCODE")}

(* a file with two COMMANDS sections of one command each *)
TwoSectionScript(tag1, line1, tag2, line2) ==
    CommandScript(tag1, <<line1>>, TRUE) \o <<LF>> \o CommandScript(tag2, <<line2>>, TRUE)

TwoSectionScripts ==
    {TwoSectionScript(t[1], t[2], t[3], t[4]) :
         t \in TwiceTags \X TwiceLineTexts \X TwiceTags \X TwiceLineTexts}

(* calls of parse_structured_file after the first, instances made after the
   first *)
MaxCalls == 2

----------------------------------------------------------------------------
(* The program *)

Fresh ==
    /\ diagnostics = <<>>
    /\ i = 0
    /\ text_buffer = <<<<>>>>
    /\ cursor_line = 0
    /\ cursor_col = 0
    /\ raised = FALSE
    /\ result = <<>>
    /\ kinds = <<>>
    /\ text_pos = 0
    /\ arrows_flag = FALSE
    /\ LIVE_INPUT_MODE = FALSE
    /\ held = {}
    /\ value_error = FALSE
    /\ dkinds = <<>>
    /\ self_generic_commands = generic_commands
    /\ later = <<>>
    /\ instance = 0

(* no StructEditor was constructed *)
NoEditor ==
    /\ ed_pc = "idle"
    /\ self_lines = <<>>
    /\ cursor_y = 0
    /\ cursor_x = 0
    /\ scroll_y = 0
    /\ scroll_x = 0
    /\ modified = FALSE
    /\ status_message = ""
    /\ filename = "None"
    /\ prev = <<>>
    /\ draw_count = 0
    /\ last_key = 0
    /\ key_count = 0

(* main.simulate_typing was not called *)
NoMain ==
    /\ main_pc = "idle"
    /\ main_pos = 0
    /\ main_arrows_flag = FALSE
    /\ main_held = {}
    /\ main_error = FALSE

(* _simulate_typing_result and simulate_typing called on a stream *)
Init ==
    /\ pc = "simulate"
    /\ script = <<>>
    /\ commands \in Streams
    /\ source_lines = <<>>
    /\ up_to_line = 0
    /\ Fresh
    /\ NoEditor
    /\ NoMain

(* a structured file compiled by parse_structured_file, its stream handed to
   _simulate_typing_result and simulate_typing *)
InitPipeline ==
    /\ pc = "parse"
    /\ script \in Scripts
    /\ commands = <<>>
    /\ source_lines = <<>>
    /\ up_to_line = 0
    /\ Fresh
    /\ NoEditor
    /\ NoMain

ParseFile ==
    /\ pc = "parse"
    /\ UNCHANGED editor_vars
    /\ UNCHANGED main_vars
    /\ \E parsed \in {ParseStructuredFile(script)} :
           /\ commands' = parsed.out
           /\ diagnostics' = parsed.warn
    /\ self_generic_commands' = GenericAfterParse(script)
    /\ pc' = "simulate"
    /\ UNCHANGED script
    /\ UNCHANGED interp_vars
    /\ UNCHANGED dispatch_vars
    /\ UNCHANGED partial_vars
    /\ UNCHANGED <<later, instance>>

SimulateStep ==
    /\ pc = "simulate"
    /\ UNCHANGED editor_vars
    /\ UNCHANGED main_vars
    /\ i < Len(commands)
    /\ LET s == LoopBody(commands, i, text_buffer, cursor_line, cursor_col)
       IN  /\ text_buffer' = s.buf
           /\ cursor_line' = s.line
           /\ cursor_col' = s.col
           /\ i' = s.i
           /\ raised' = s.raised
           /\ pc' = IF s.raised THEN "done" ELSE "simulate"
           /\ kinds' = IF s.raised THEN kinds ELSE kinds \o KindsOf(commands, i)
    /\ UNCHANGED <<commands, result>>
    /\ UNCHANGED parse_vars
    /\ UNCHANGED dispatch_vars
    /\ UNCHANGED partial_vars
    /\ UNCHANGED parser_vars

SimulateReturn ==
    /\ pc = "simulate"
    /\ UNCHANGED editor_vars
    /\ UNCHANGED main_vars
    /\ i >= Len(commands)
    /\ result' = Returned(text_buffer, cursor_line, cursor_col)
    /\ pc' = "dispatch"
    /\ UNCHANGED <<commands, i, text_buffer, cursor_line, cursor_col, raised, kinds>>
    /\ UNCHANGED parse_vars
    /\ UNCHANGED dispatch_vars
    /\ UNCHANGED partial_vars
    /\ UNCHANGED parser_vars

(* tyrec.simulate_typing(commands): char = next(text_iter) and the rest of the
   pass; with LIVE_INPUT_MODE set the unit is taken and the pass continues
   without dispatching it *)
TypingStep ==
    /\ pc = "dispatch"
    /\ UNCHANGED editor_vars
    /\ UNCHANGED main_vars
    /\ text_pos < Len(commands)
    /\ text_pos' = text_pos + 1
    /\ IF LIVE_INPUT_MODE THEN
           /\ dkinds' = Append(dkinds, "skipped")
           /\ UNCHANGED <<pc, arrows_flag, held, value_error>>
       ELSE
           LET d == DispatchBody(commands[text_pos + 1], arrows_flag, held)
           IN  /\ arrows_flag' = d.flag
               /\ held' = d.held
               /\ value_error' = d.error
               /\ dkinds' = Append(dkinds, d.kind)
               /\ pc' = IF d.error THEN "done" ELSE pc
    /\ UNCHANGED <<commands, LIVE_INPUT_MODE>>
    /\ UNCHANGED parse_vars
    /\ UNCHANGED interp_vars
    /\ UNCHANGED partial_vars
    /\ UNCHANGED parser_vars

(* StopIteration: the loop breaks and simulate_typing returns *)
TypingReturn ==
    /\ pc = "dispatch"
    /\ UNCHANGED editor_vars
    /\ UNCHANGED main_vars
    /\ text_pos >= Len(commands)
    /\ pc' = "done"
    /\ UNCHANGED <<commands>>
    /\ UNCHANGED parse_vars
    /\ UNCHANGED interp_vars
    /\ UNCHANGED dispatch_vars
    /\ UNCHANGED partial_vars
    /\ UNCHANGED parser_vars

(* a file with one COMMANDS section compiled and its stream consumed *)
InitCommands ==
    /\ pc = "parse"
    /\ script \in CommandScripts
    /\ commands = <<>>
    /\ source_lines = <<>>
    /\ up_to_line = 0
    /\ Fresh
    /\ NoEditor
    /\ NoMain

(* simulate_execution called on a content and a cutoff line *)
InitPartial ==
    /\ pc = "partial"
    /\ source_lines \in Sources
    /\ up_to_line \in 0..(Len(source_lines) - 1)
    /\ script = <<>>
    /\ commands = <<>>
    /\ Fresh
    /\ NoEditor
    /\ NoMain

(* partial_content = self._build_partial_content(lines, up_to_line), written
   to the temporary file *)
BuildPartial ==
    /\ pc = "partial"
    /\ UNCHANGED editor_vars
    /\ UNCHANGED main_vars
    /\ script' = BuildPartialContent(source_lines, up_to_line)
    /\ pc' = "parse"
    /\ UNCHANGED <<diagnostics, commands>>
    /\ UNCHANGED interp_vars
    /\ UNCHANGED dispatch_vars
    /\ UNCHANGED partial_vars
    /\ UNCHANGED parser_vars

Next == SimulateStep \/ SimulateReturn \/ TypingStep \/ TypingReturn

Spec == Init /\ [][Next]_vars

NextPipeline == ParseFile \/ Next

SpecPipeline == InitPipeline /\ [][NextPipeline]_vars

SpecCommands == InitCommands /\ [][NextPipeline]_vars

NextPartial == BuildPartial \/ ParseFile

SpecPartial == InitPartial /\ [][NextPartial]_vars

(* parser.parse_structured_file called once more on the same file, with the
   instance in use *)
ParseAgain ==
    /\ pc = "simulate"
    /\ UNCHANGED editor_vars
    /\ UNCHANGED main_vars
    /\ i = 0
    /\ Len(later) < MaxCalls
    /\ \E parsed \in {ParseStructuredFile(script)} :
           later' = Append(later, parsed.out)
    /\ self_generic_commands' = GenericAfterParse(script)
    /\ UNCHANGED <<pc, commands, instance>>
    /\ UNCHANGED parse_vars
    /\ UNCHANGED interp_vars
    /\ UNCHANGED dispatch_vars
    /\ UNCHANGED partial_vars

(* parser = StructuredParser(): __init__ builds the tables anew *)
NewParser ==
    /\ pc = "simulate"
    /\ UNCHANGED editor_vars
    /\ UNCHANGED main_vars
    /\ i = 0
    /\ instance < MaxCalls
    /\ instance' = instance + 1
    /\ self_generic_commands' = generic_commands
    /\ UNCHANGED <<pc, commands, later>>
    /\ UNCHANGED parse_vars
    /\ UNCHANGED interp_vars
    /\ UNCHANGED dispatch_vars
    /\ UNCHANGED partial_vars

(* a file with two COMMANDS sections compiled several times, by one parser
   instance or by new ones *)
InitTwice ==
    /\ pc = "parse"
    /\ script \in TwoSectionScripts
    /\ commands = <<>>
    /\ source_lines = <<>>
    /\ up_to_line = 0
    /\ Fresh
    /\ NoEditor
    /\ NoMain

NextTwice == ParseFile \/ ParseAgain \/ NewParser

SpecTwice == InitTwice /\ [][NextTwice]_vars

(* a file that uses one entry of the tables, or the worked example, compiled
   and its stream consumed *)
InitEntries ==
    /\ pc = "parse"
    /\ script \in EntryScripts \cup MacroScripts \cup {RightBackspaceScript}
    /\ commands = <<>>
    /\ source_lines = <<>>
    /\ up_to_line = 0
    /\ Fresh
    /\ NoEditor
    /\ NoMain

SpecEntries == InitEntries /\ [][NextPipeline]_vars

----------------------------------------------------------------------------
(* Properties of the interpreter *)

InLoop == pc = "simulate" /\ ~raised

HasReturned == pc \in {"dispatch", "done"} /\ ~raised

RECURSIVE SumLen(_)
SumLen(tb) == IF tb = <<>> THEN 0 ELSE Len(Head(tb)) + SumLen(Tail(tb))

GlyphCount(tb) ==
    Cardinality({p \in (1..Len(tb)) \X (1..SumLen(tb)) :
                     p[2] <= Len(tb[p[1]]) /\ tb[p[1]][p[2]] = CursorGlyph})

RECURSIVE Without(_, _)
Without(line, c) ==
    IF line = <<>> THEN <<>>
    ELSE IF Head(line) = c THEN Without(Tail(line), c)
    ELSE <<Head(line)>> \o Without(Tail(line), c)

StripGlyph(tb) == [k \in 1..Len(tb) |-> Without(tb[k], CursorGlyph)]

(* C1: after every processed unit the cursor is inside the buffer:
   0 <= cursor_line < len(text_buffer) and
   0 <= cursor_col <= len(text_buffer[cursor_line]). *)
C1_CursorInBounds ==
    InLoop =>
        /\ 0 <= cursor_line
        /\ cursor_line < Len(text_buffer)
        /\ 0 <= cursor_col
        /\ cursor_col <= Len(text_buffer[cursor_line + 1])

(* C2: for every input string _simulate_typing_result raises nothing and
   returns a list of at least one line. *)
C2_NeverRaises ==
    /\ ~raised
    /\ HasReturned => Len(result) >= 1

(* the interpreter returned after a Down below the last line was followed by
   a further unit, the one case where a line index could be out of range *)
C2_Witness ==
    /\ HasReturned
    /\ Len(commands) = 3
    /\ commands[1] = BEL /\ commands[2] = Ord("d") /\ commands[3] = Ord("x")
    /\ Len(result) = 2

(* C4: in every interpreter state, a printable character followed by a
   Backspace restores the buffer lines and the cursor. *)
C4_InsertBackspaceInverse ==
    InLoop =>
        \A c \in {32, Ord("x")} :
            LET s1 == LoopBody(<<c, BS>>, 0, text_buffer, cursor_line, cursor_col)
                s2 == LoopBody(<<c, BS>>, 1, s1.buf, s1.line, s1.col)
            IN  /\ ~s1.raised /\ ~s2.raised
                /\ s2.buf = text_buffer
                /\ s2.line = cursor_line
                /\ s2.col = cursor_col

(* C6: after a marker exactly one unit is consumed as a directive and is never
   inserted as text, the unit after it is processed as an ordinary unit (a
   printable one is inserted), and a marker that ends the stream changes
   neither the cursor nor what the interpreter returns. *)
C6_OneDirective ==
    /\ [](InLoop => Len(kinds) = i)
    /\ [][(InLoop /\ i < Len(commands)) =>
            IF commands[i + 1] = BEL THEN
                IF i + 1 < Len(commands) THEN
                    /\ i' = i + 2
                    /\ kinds' = kinds \o <<"marker", "directive">>
                    /\ SumLen(text_buffer') = SumLen(text_buffer)
                ELSE
                    /\ i' = i + 1
                    /\ cursor_line' = cursor_line /\ cursor_col' = cursor_col
                    /\ Returned(text_buffer', cursor_line', cursor_col')
                           = Returned(text_buffer, cursor_line, cursor_col)
            ELSE
                /\ i' = i + 1
                /\ kinds' = Append(kinds, "normal")
                /\ IsPrintable(commands[i + 1]) =>
                       SumLen(text_buffer') = SumLen(text_buffer) + 1
          ]_vars

(* a printable unit was consumed as a directive and the same unit, met next,
   was inserted *)
C6_Witness ==
    /\ InLoop
    /\ commands = <<BEL, Ord("x"), Ord("x")>>
    /\ i = 3
    /\ kinds = <<"marker", "directive", "normal">>
    /\ text_buffer = << <<Ord("x")>> >>

(* C7: the dispatcher and the interpreter classify the positions of every
   stream alike. *)
C7_SameClassification ==
    (pc = "done" /\ ~raised) => dkinds = kinds

(* C8: the number of lines is 1 + newlines processed - backspaces processed at
   column 0 of a line > 0; stated per step: a Newline adds one line, such a
   Backspace removes one, no other unit changes the number of lines. *)
C8_LineCount ==
    [][(InLoop /\ i < Len(commands)) =>
          Len(text_buffer') = Len(text_buffer)
              + (IF commands[i + 1] = LF THEN 1 ELSE 0)
              - (IF commands[i + 1] = BS /\ cursor_col = 0 /\ cursor_line > 0
                    THEN 1 ELSE 0)
      ]_vars

(* C9: the returned list holds the cursor marker exactly once, on line
   cursor_line at offset cursor_col. *)
C9_MarkerAtCursor ==
    HasReturned =>
        /\ GlyphCount(result) = 1
        /\ cursor_line < Len(result)
        /\ cursor_col < Len(result[cursor_line + 1])
        /\ result[cursor_line + 1][cursor_col + 1] = CursorGlyph

(* C10 as stated: the returned lines without the marker are exactly the final
   buffer lines; taken where the cursor is on a line of the buffer. *)
C10_OutputIsBuffer ==
    (HasReturned /\ cursor_line < Len(text_buffer)) =>
        StripGlyph(result) = text_buffer

LastNonEmpty(tb) ==
    LET ks == {k \in 1..Len(tb) : tb[k] # <<>>}
    IN  IF ks = {} THEN 0 ELSE CHOOSE k \in ks : \A m \in ks : m <= k

(* C10 amended: the returned lines without the marker are the final buffer
   lines up to the later of the cursor line and the last non-empty line; a
   cursor below the last buffer line has an (empty) line of its own. *)
C10_OutputIsTrimmedBuffer ==
    HasReturned =>
        LET n == Max(cursor_line + 1, LastNonEmpty(text_buffer))
        IN  /\ Len(result) = n
            /\ \A k \in 1..n :
                   Without(result[k], CursorGlyph) =
                       IF k <= Len(text_buffer) THEN text_buffer[k] ELSE <<>>

(* the interpreter returned fewer lines than the buffer holds, the cursor on
   a line of the buffer *)
C10_Witness ==
    /\ HasReturned
    /\ cursor_line < Len(text_buffer)
    /\ Len(result) < Len(text_buffer)
    /\ GlyphCount(result) = 1

----------------------------------------------------------------------------
(* Properties of the pipeline *)

(* C3 as stated: the script of test_simple_edit ends with the single buffer
   line "Beautiful", nothing of "World" left. *)
C3_OnlyBeautiful ==
    (script = SimpleEditScript /\ HasReturned) =>
        text_buffer = <<Str("Beautiful")>>

(* C3 amended: the script of test_simple_edit ends with the single buffer
   line "HBeautifulWorld", the cursor after "Beautiful": the five Backspaces
   delete "ello " left of the cursor, "World" stays. *)
C3_BeautifulBeforeWorld ==
    (script = SimpleEditScript /\ HasReturned) =>
        /\ commands = Str("Hello World") \o Repeat(<<BEL, Ord("l")>>, 5)
                          \o Repeat(<<BS>>, 5) \o Str("Beautiful")
        /\ text_buffer = <<Str("HBeautifulWorld")>>
        /\ cursor_line = 0
        /\ cursor_col = 10
        /\ diagnostics = <<>>

C3_Witness ==
    /\ script = SimpleEditScript
    /\ HasReturned
    /\ Len(commands) = 35

(* the lines of the text between "<CODE>\n" and "\n</CODE>" of a script made
   by CodeScript *)
IsCodeScript == script # SimpleEditScript /\ script # <<>>

CodeText == SplitOn(SubSeq(script, 8, Len(script) - 8), LF)

AllSpaces(line) == \A k \in 1..Len(line) : line[k] = 32

(* C5 as stated: a script of one Code section with text X ends with the buffer
   holding the lines of X and the cursor at the end of the last line; taken
   for the texts whose first and last lines are not blank. *)
C5_BufferIsText ==
    (IsCodeScript /\ HasReturned) =>
        \A X \in {CodeText} :
            (~AllSpaces(X[1]) /\ ~AllSpaces(X[Len(X)])) =>
                /\ text_buffer = X
                /\ cursor_line = Len(X) - 1
                /\ cursor_col = Len(X[Len(X)])

LeadingSpaces(line) ==
    SetMin({n \in 0..Len(line) : n = Len(line) \/ line[n + 1] # 32})

(* the lines of X from the first to the last line that is not blank, without
   the indentation those lines share, blank lines emptied *)
Dedented(lines) ==
    Bind({k \in 1..Len(lines) : ~AllSpaces(lines[k])}, LAMBDA inked :
    Bind(SetMin(inked), LAMBDA first :
    Bind(SetMin({LeadingSpaces(lines[k]) : k \in inked}), LAMBDA shared :
        [k \in 1..(SetMax(inked) - first + 1) |->
            LET line == lines[first + k - 1]
            IN  IF AllSpaces(line) THEN <<>> ELSE SubSeq(line, shared + 1, Len(line))])))

(* C5 amended: for X with a line that is not blank, the buffer holds the
   lines of X from its first to its last non-blank line, the indentation
   shared by the non-blank lines removed and the blank lines emptied; the
   cursor is at the end of the last line. *)
C5_BufferIsDedentedText ==
    (IsCodeScript /\ HasReturned) =>
        \A X \in {CodeText} :
            (\E k \in 1..Len(X) : ~AllSpaces(X[k])) =>
                /\ text_buffer = Dedented(X)
                /\ cursor_line = Len(text_buffer) - 1
                /\ cursor_col = Len(text_buffer[Len(text_buffer)])
                /\ diagnostics = <<>>

(* an indented text of three lines, the middle one blank, was typed *)
C5_Witness ==
    /\ IsCodeScript
    /\ HasReturned
    /\ CodeText = <<Str(" a"), Str(" "), Str(" a")>>
    /\ text_buffer = <<Str("a"), <<>>, Str("a")>>

----------------------------------------------------------------------------
(* Properties of the Commands section processor, over the files made by
   CommandScript *)

(* parse_structured_file has just returned *)
Compiled == pc = "simulate" /\ i = 0

ScriptLines == SplitOn(script, LF)

(* the parts a file made by CommandScript was made of *)
SectionClosed(ls) == ls[Len(ls)] = Str("</COMMANDS>")

SectionTag(ls) == SubSeq(ls[1], 10, Len(ls[1]) - 1)

SectionLines(ls) == SubSeq(ls, 2, IF SectionClosed(ls) THEN Len(ls) - 1 ELSE Len(ls))

(* the section record the splitter hands over for such a file *)
SectionOf(ls) ==
    Bind(SectionTag(ls), LAMBDA tag :
        [hasTool |-> tag # <<>>,
         tool |-> IF tag = <<>> THEN <<>> ELSE Upper(SubSeq(tag, 3, Len(tag)))])

CommandName(line) == Upper(SplitWords(line)[1])

HasCount(line) == Len(SplitWords(line)) > 1

WithoutLine(ls, k) == SubSeq(ls, 1, k - 1) \o SubSeq(ls, k + 1, Len(ls))

Warned(kind, line) ==
    \E d \in 1..Len(diagnostics) :
        diagnostics[d].kind = kind /\ diagnostics[d].line = line

(* C11: a line of a Commands section whose command name is not in the active
   table emits a diagnostic, and the compiled stream is the stream of the
   same file with that line removed. *)
C11_UnknownLineRemoved ==
    Compiled =>
        \A ls \in {ScriptLines} :
            SectionClosed(ls) =>
                \A k \in 1..Len(SectionLines(ls)) :
                    \A line \in {SectionLines(ls)[k]} :
                        ~InCommandMap(SectionOf(ls), CommandName(line)) =>
                            /\ Warned("unknown", line)
                            /\ commands =
                                   ParseStructuredFile(
                                       CommandScript(SectionTag(ls),
                                                     WithoutLine(SectionLines(ls), k),
                                                     TRUE)).out
(* the stream of a closed section with the given lines; no lines, no stream *)
StreamOf(tag, cmdlines) ==
    IF cmdlines = <<>> THEN <<>>
    ELSE ParseStructuredFile(CommandScript(tag, cmdlines, TRUE)).out

(* line k of the section contributes exactly the tokens X: the stream is the
   stream of the lines before it, X, and the stream of the lines after it *)
Contributes(ls, k, X) ==
    commands = StreamOf(SectionTag(ls), SubSeq(SectionLines(ls), 1, k - 1))
               \o X
               \o StreamOf(SectionTag(ls),
                           SubSeq(SectionLines(ls), k + 1, Len(SectionLines(ls))))

(* the count a line supplies, 1 by default *)
CountOf(line) == IF HasCount(line) THEN ParseInt(SplitWords(line)[2]).value ELSE 1

(* a token with a character no integer literal has *)
NotInteger(token) ==
    \E k \in 1..Len(token) : ~IsDigit(token[k]) /\ token[k] \notin {43, 45, 95}

(* \au, \ad, \al, \ar, a backspace, a newline *)
RepeatableExpansions == {Esc("u"), Esc("d"), Esc("l"), Esc("r"), <<BS>>, <<LF>>}

(* the active table of the section, from the tables themselves *)
ToolTableOf(sec) ==
    IF sec.hasTool /\ \E t \in 1..Len(tool_specific_commands) :
                          tool_specific_commands[t][1] = sec.tool
        THEN Lookup(tool_specific_commands, sec.tool)
        ELSE <<>>

Known(sec, name) == HasKey(ToolTableOf(sec), name) \/ HasKey(generic_commands, name)

Expansion(sec, name) ==
    IF HasKey(ToolTableOf(sec), name) THEN Lookup(ToolTableOf(sec), name)
    ELSE Lookup(generic_commands, name)

(* the lines of a compiled closed section with a well-formed count, each
   with its number, its name and the section record *)
EveryCommandLine(P(_, _, _, _)) ==
    Compiled =>
        \A ls \in {ScriptLines} :
            SectionClosed(ls) =>
                \A sec \in {SectionOf(ls)} :
                    \A k \in 1..Len(SectionLines(ls)) :
                        \A line \in {SectionLines(ls)[k]} :
                            (~HasCount(line) \/ ~NotInteger(SplitWords(line)[2])) =>
                                P(ls, sec, k, line)
(* C12: a known command whose expansion is a directional movement, a
   backspace or a newline contributes its expansion repeated count times,
   whichever table it comes from. *)
C12_RepeatedByExpansion ==
    EveryCommandLine(LAMBDA ls, sec, k, line :
        \A name \in {CommandName(line)} :
            (Known(sec, name) /\ Expansion(sec, name) \in RepeatableExpansions) =>
                Contributes(ls, k, Repeat(Expansion(sec, name), CountOf(line))))

(* C13 as stated: a known command whose expansion is none of those
   contributes its expansion once whatever the count, with a diagnostic when
   the count is greater than 1. *)
C13_OthersOnce ==
    EveryCommandLine(LAMBDA ls, sec, k, line :
        \A name \in {CommandName(line)} :
            (Known(sec, name) /\ Expansion(sec, name) \notin RepeatableExpansions) =>
                /\ Contributes(ls, k, Expansion(sec, name))
                /\ CountOf(line) > 1 => Warned("norepeat", line))

(* C13 amended: SLEEP contributes its expansion count times; every other
   known command whose expansion is no movement, backspace or newline
   contributes its expansion once whatever the count, with a diagnostic when
   the count is greater than 1. *)
C13_OthersOnceButSleep ==
    EveryCommandLine(LAMBDA ls, sec, k, line :
        \A name \in {CommandName(line)} :
            (Known(sec, name) /\ Expansion(sec, name) \notin RepeatableExpansions) =>
                IF name = Str("SLEEP")
                    THEN Contributes(ls, k, Repeat(Expansion(sec, name), CountOf(line)))
                    ELSE /\ Contributes(ls, k, Expansion(sec, name))
                         /\ CountOf(line) > 1 => Warned("norepeat", line))

(* HOME 2 between two other lines was compiled to one \ab, with a diagnostic *)
C13_Witness ==
    /\ Compiled
    /\ script = CommandScript(<<>>, <<Str("HOME 2"), Str("SLEEP 2")>>, TRUE)
    /\ commands = Esc("b") \o Esc("z") \o Esc("z")
    /\ Warned("norepeat", Str("HOME 2"))

(* C14: a line whose second token is no integer emits a diagnostic and
   contributes nothing; the tokens of the other lines are those they have
   without it. *)
C14_BadCountSkipsLine ==
    Compiled =>
        \A ls \in {ScriptLines} :
            SectionClosed(ls) =>
                \A k \in 1..Len(SectionLines(ls)) :
                    \A line \in {SectionLines(ls)[k]} :
                        (HasCount(line) /\ NotInteger(SplitWords(line)[2])) =>
                            /\ Warned("invalid", line)
                            /\ Contributes(ls, k, <<>>)

(* ARROW_LEFT x followed by ENTER 2 was compiled to two newlines *)
C14_Witness ==
    /\ Compiled
    /\ script = CommandScript(<<>>, <<Str("ARROW_LEFT x"), Str("ENTER 2")>>, TRUE)
    /\ commands = <<LF, LF>>
    /\ Warned("invalid", Str("ARROW_LEFT x"))

(* C15: a name resolves to the expansion of the registered tool's table if
   that table defines it, otherwise to the generic table's; with no tool or
   an unregistered one only the generic table counts, and a name in neither
   is unknown: a diagnostic, no tokens. *)
C15_ToolThenGeneric ==
    EveryCommandLine(LAMBDA ls, sec, k, line :
        \A name \in {CommandName(line)} :
            IF Known(sec, name)
                THEN \/ Contributes(ls, k, Expansion(sec, name))
                     \/ Contributes(ls, k, Repeat(Expansion(sec, name), CountOf(line)))
                ELSE Contributes(ls, k, <<>>) /\ Warned("unknown", line))

(* REDO in a vim section gave \ar, and HISTORY_UP, a SHELL name, nothing *)
C15_Witness ==
    /\ Compiled
    /\ script = CommandScript(Str(": vim"), <<Str("REDO"), Str("HISTORY_UP 2")>>, TRUE)
    /\ commands = Esc("r")
    /\ Warned("unknown", Str("HISTORY_UP 2"))

HasSubSeq(s, t) == \E k \in 0..(Len(s) - Len(t)) : SubSeq(s, k + 1, k + Len(t)) = t

(* C16: a file whose last section has no close tag compiles to the stream of
   the file with the close tag appended, and the open tag text is not in the
   stream. *)
C16_UnterminatedAsClosed ==
    Compiled =>
        \A ls \in {ScriptLines} :
            ~SectionClosed(ls) =>
                /\ commands =
                       ParseStructuredFile(script \o <<LF>> \o Str("</COMMANDS>")).out
                /\ ~HasSubSeq(commands, ls[1])
----------------------------------------------------------------------------
(* Properties of _build_partial_content *)

(* _build_partial_content has just returned the script *)
Built == pc = "parse" /\ source_lines # <<>>

(* result_lines, read back from the script *)
OutputLines == IF script = <<>> THEN <<>> ELSE SplitOn(script, LF)

(* an open tag line of either kind, in the code's case and in any case *)
OpensSection(line) == IsSectionStart(Strip(line))
OpensSectionAnyCase(line) == IsSectionStart(Upper(Strip(line)))

KindOf(line) == IF StartsWith(Upper(Strip(line)), kOpenCode) THEN kCODE ELSE kCOMMANDS

ClosesKind(line, kind) == StartsWith(Strip(line), Str("</") \o kind)

(* C17: when the cutoff is the open tag line of a section or a later line
   inside it, the section not being closed by the cutoff, the open tag is
   followed in the output by a close tag of the same kind.  Taken for the
   first section of the script. *)
C17_OpenTagClosed ==
    Built =>
        \A a \in 1..(up_to_line + 1) :
            (/\ OpensSection(source_lines[a])
             /\ \A b \in 1..(a - 1) : ~OpensSectionAnyCase(source_lines[b])
             /\ \A b \in (a + 1)..(up_to_line + 1) :
                    ~ClosesKind(source_lines[b], KindOf(source_lines[a]))) =>
                \A out \in {OutputLines} :
                    \E p \in 1..Len(out) :
                        /\ out[p] = source_lines[a]
                        /\ \E q \in (p + 1)..Len(out) :
                               ClosesKind(out[q], KindOf(source_lines[a]))

(* C18: a section the splitter recognizes, with its open and close tag lines
   at or before the cutoff, is in the output with the same lines in the same
   order.  Taken for a section that starts on the first line and ends with
   line b. *)
C18_ClosedSectionKept ==
    Built =>
        \A b \in 1..(up_to_line + 1) :
            \A m \in {MatchAt(Join(source_lines, <<LF>>), 0)} :
                (m.ok /\ m.end = Len(Join(SubSeq(source_lines, 1, b), <<LF>>))) =>
                    \A out \in {OutputLines} :
                        /\ Len(out) >= b
                        /\ SubSeq(out, 1, b) = SubSeq(source_lines, 1, b)

(* C19: the output depends on lines[0..cutoff] only: it is the output for
   the script cut after the cutoff line. *)
C19_OnlyPrefixCounts ==
    Built =>
        script = BuildPartialContent(SubSeq(source_lines, 1, up_to_line + 1), up_to_line)

(* a script of three lines cut at its second line gave the first two lines
   and the temporary closing tag *)
C19_Witness ==
    /\ Built
    /\ source_lines = <<Str("<CODE>"), Str("x"), Str("</code>")>>
    /\ up_to_line = 1
    /\ script = Join(<<Str("<CODE>"), Str("x"), Str("</CODE>")>>, <<LF>>)

(* the indices the outer loop meets, those outside any open section *)
RECURSIVE OuterFrom(_, _, _)
OuterFrom(ls, cutoff, at) ==
    Bind(at, LAMBDA from :
        IF ~InReach(ls, cutoff, from) THEN {}
        ELSE {from} \cup OuterFrom(ls, cutoff, PartialStep(ls, cutoff, from).next))

(* C20: a close tag line met outside any open section is skipped: it is not
   in the output, and the output is the output for the script without that
   line. *)
C20_OrphanCloseSkipped ==
    Built =>
        \A k \in OuterFrom(source_lines, up_to_line, 0) :
            StartsWith(Strip(source_lines[k + 1]), Str("</")) =>
                script = BuildPartialContent(WithoutLine(source_lines, k + 1),
                                             up_to_line - 1)

(* a close tag before the section it does not belong to was left out *)
C20_Witness ==
    /\ Built
    /\ source_lines = <<Str("</CODE>"), Str("<CODE>"), Str("x")>>
    /\ 0 \in OuterFrom(source_lines, up_to_line, 0)
    /\ up_to_line = 2
    /\ script = Join(<<Str("<CODE>"), Str("x"), Str("</CODE>")>>, <<LF>>)

----------------------------------------------------------------------------
(* Properties of parse_structured_file, over the files _build_partial_content
   writes *)

(* what each section yielded by the splitter contributes *)
SectionOutputs(sections) ==
    [n \in 1..Len(sections) |->
        IF sections[n].type = kCODE THEN ProcessCodeSection(sections[n])
        ELSE IF sections[n].type = kCOMMANDS THEN ProcessCommandsSection(sections[n]).out
        ELSE sections[n].content]

(* C21: the stream parse_structured_file returns is the outputs of the
   sections the splitter yields, in source order, joined with no separator;
   the content of a plain text section is its own output. *)
C21_ConcatenationOfSections ==
    Compiled =>
        \A sections \in {SplitIntoSections(ReadText(script))} :
            commands = Join(SectionOutputs(sections), <<>>)

(* a plain text followed by a Code section was compiled to the two contents,
   one right after the other *)
C21_Witness ==
    /\ Compiled
    /\ script = Join(<<Str("x"), Str("<CODE>"), Str("x"), Str("</CODE>")>>, <<LF>>)
    /\ SplitIntoSections(script) =
           <<Section(kTEXT, Str("x"), FALSE, <<>>), Section(kCODE, Str("x"), FALSE, <<>>)>>
    /\ commands = Str("xx")

----------------------------------------------------------------------------
(* Properties of the command and macro tables, over the files that use one
   entry each *)

(* C22: in the stream compiled from a table entry and followed by the Code
   text x, every marker is followed by a directive letter, no letter that
   comes after a marker is inserted as text before the final x, and the
   final x is processed as an ordinary unit, not as a directive. *)
C22_EntriesSelfContained ==
    HasReturned =>
        /\ \A p \in 1..Len(commands) :
               commands[p] = BEL => p < Len(commands) /\ IsLetter(commands[p + 1])
        /\ \A p \in 1..(Len(commands) - 1) :
               (kinds[p] = "normal" /\ \E q \in 1..(p - 1) : commands[q] = BEL) =>
                   ~IsLetter(commands[p])
        /\ commands # <<>> => kinds[Len(commands)] = "normal"

(* the section record of a file made by MacroScript *)
MacroSection(tag) ==
    [hasTool |-> tag # <<>>,
     tool |-> IF tag = <<>> THEN <<>> ELSE Upper(SubSeq(tag, 3, Len(tag)))]

(* C26: the text x{{NAME}}x of a Code section compiles to x, the expansion
   of NAME, x when the section names a registered tool whose table has NAME;
   with no tool, with an unregistered tool, or with a NAME that table does
   not have, it compiles to itself. *)
C26_ShortcutOnlyFromToolTable ==
    Compiled =>
        \A tag \in MacroTags :
            \A name \in MacroNames :
                script = MacroScript(tag, name) =>
                    \A table \in {ToolTableOf(MacroSection(tag))} :
                        /\ commands =
                               Str("x")
                               \o (IF HasKey(table, name) THEN Lookup(table, name)
                                   ELSE Str("{{") \o name \o Str("}}"))
                               \o Str("x")
                        /\ diagnostics = <<>>

(* {{SAVE}} in a vim section was replaced by :w and a newline *)
C26_Witness ==
    /\ Compiled
    /\ script = MacroScript(Str(": vim"), Str("SAVE"))
    /\ commands = Str("x:w") \o <<LF>> \o Str("x")

(* the worked example is being interpreted *)
RightBackspace == script = RightBackspaceScript /\ pc # "parse"

(* C27 as stated: from the line abcdefgh with the cursor at column 0,
   ARROW_RIGHT 5 then BACKSPACE 2 leave the line cdefgh with the cursor at
   column 3. *)
C27_LeavesCdefgh ==
    (RightBackspace /\ HasReturned) =>
        /\ text_buffer = <<Str("cdefgh")>>
        /\ cursor_col = 3

(* C27 amended: the text and HOME give the line abcdefgh with the cursor at
   column 0; ARROW_RIGHT 5 moves the cursor to column 5; BACKSPACE 2 deletes
   the two characters left of it, d and e: the line is abcfgh, the cursor at
   column 3. *)
C27_LeavesAbcfgh ==
    RightBackspace =>
        /\ commands = Str("abcdefgh") \o Esc("b") \o Repeat(Esc("r"), 5) \o <<BS, BS>>
        /\ (InLoop /\ i = 10) =>
               text_buffer = <<Str("abcdefgh")>> /\ cursor_line = 0 /\ cursor_col = 0
        /\ (InLoop /\ i = 20) =>
               text_buffer = <<Str("abcdefgh")>> /\ cursor_line = 0 /\ cursor_col = 5
        /\ HasReturned =>
               /\ text_buffer = <<Str("abcfgh")>>
               /\ cursor_line = 0
               /\ cursor_col = 3
               /\ result = <<Str("abc") \o <<CursorGlyph>> \o Str("fgh")>>

(* the example was interpreted to its end *)
C27_Witness ==
    /\ RightBackspace
    /\ HasReturned
    /\ Len(commands) = 22
    /\ Len(text_buffer[1]) = 6

----------------------------------------------------------------------------
(* Properties of the arrow directives, over the streams *)

(* the directive letters _handle_arrow_command moves the cursor for *)
MovingDirectives ==
    {Ord(c) : c \in {"u", "d", "l", "r", "b", "e", "B", "E", "U", "D"}}

(* the directives of the claims: the movements, Exit, the pass-through ones,
   and units that are no directive *)
Directives ==
    MovingDirectives \cup {Ord(c) : c \in {"Q", "s", "S", "z", "C", "x"}} \cup {BEL, LF}

(* the pass of the loop that processes a marker and the directive d, taken
   in the present state *)
AfterDirective(d) == LoopBody(<<BEL, d>>, 0, text_buffer, cursor_line, cursor_col)

(* C23: in every interpreter state, a pass that processes a marker and its
   directive leaves the buffer lines as they are, and for a directive that
   is no movement (Q, s, S, z, C, an unrecognized unit) the cursor too. *)
C23_DirectiveKeepsBuffer ==
    InLoop =>
        \A d \in Directives :
            \A s \in {AfterDirective(d)} :
                /\ ~s.raised /\ s.i = 2
                /\ s.buf = text_buffer
                /\ d \notin MovingDirectives =>
                       s.line = cursor_line /\ s.col = cursor_col

(* C24: in every interpreter state, Up and Down move the cursor one line and
   PageUp and PageDown PageSize lines, stopping at the first line and at the
   last line of the buffer, and the column becomes the smaller of the old
   column and the length of the line the cursor lands on. *)
C24_VerticalMoves ==
    InLoop =>
        \A d \in {Ord("u"), Ord("d"), Ord("U"), Ord("D")} :
            \A s \in {AfterDirective(d)} :
                \A n \in {IF d \in {Ord("u"), Ord("d")} THEN 1 ELSE 10} :
                    /\ ~s.raised
                    /\ s.line = IF d \in {Ord("u"), Ord("U")}
                                    THEN Max(0, cursor_line - n)
                                    ELSE Min(Len(s.buf) - 1, cursor_line + n)
                    /\ s.line < Len(s.buf)
                    /\ s.col = Min(cursor_col, Len(s.buf[s.line + 1]))

(* the cursor after a marker-and-directive pass taken at the cursor (cl, cc)
   of the buffer tb *)
Moved(d, tb, cl, cc) == LoopBody(<<BEL, d>>, 0, tb, cl, cc)

(* C25: in every interpreter state, Left moves one column left, or from
   column 0 of a line > 0 to the end of the previous line, and does nothing
   at (0,0); Right moves one column right, or from the end of a line that is
   not the last to column 0 of the next line, and does nothing at the end of
   the last line; Right then Left, and Left then Right, return to the same
   cursor whenever the first move changed it. *)
C25_LeftRight ==
    InLoop =>
        \A left \in {Moved(Ord("l"), text_buffer, cursor_line, cursor_col)} :
        \A right \in {Moved(Ord("r"), text_buffer, cursor_line, cursor_col)} :
            /\ <<left.line, left.col>> =
                   IF cursor_col > 0 THEN <<cursor_line, cursor_col - 1>>
                   ELSE IF cursor_line > 0
                       THEN <<cursor_line - 1, Len(left.buf[cursor_line])>>
                   ELSE <<0, 0>>
            /\ cursor_line < Len(right.buf)
            /\ <<right.line, right.col>> =
                   IF cursor_col < Len(right.buf[cursor_line + 1])
                       THEN <<cursor_line, cursor_col + 1>>
                   ELSE IF cursor_line < Len(right.buf) - 1 THEN <<cursor_line + 1, 0>>
                   ELSE <<cursor_line, cursor_col>>
            /\ \A back \in {Moved(Ord("l"), right.buf, right.line, right.col)} :
                   <<right.line, right.col>> # <<cursor_line, cursor_col>> =>
                       <<back.line, back.col>> = <<cursor_line, cursor_col>>
            /\ \A forth \in {Moved(Ord("r"), left.buf, left.line, left.col)} :
                   <<left.line, left.col>> # <<cursor_line, cursor_col>> =>
                       <<forth.line, forth.col>> = <<cursor_line, cursor_col>>

----------------------------------------------------------------------------
(* Properties of repeated compilation, over the files with two COMMANDS
   sections *)

(* C28: every later call of parse_structured_file on the same file, by the
   same parser instance or by a new one, returns the stream the first call
   returned, and the tables of the instance are those __init__ built. *)
C28_SameStreamEveryCall ==
    /\ \A k \in 1..Len(later) : later[k] = commands
    /\ self_generic_commands = generic_commands

(* REDO, unknown in the section without a tool and known in the vim section,
   was compiled twice by one instance, to \ar both times *)
C28_Witness ==
    /\ script = TwoSectionScript(<<>>, Str("REDO"), Str(": vim"), Str("REDO"))
    /\ instance = 0
    /\ Len(later) = 1
    /\ later[1] = Esc("r")
    /\ commands = Esc("r")

----------------------------------------------------------------------------
(* Properties of the dispatcher, over the compiled files *)

(* C29: simulate_typing raises no ValueError on the stream compiled from a
   file of Code text and known commands. *)
C29_NoValueError == ~value_error

----------------------------------------------------------------------------
(* Properties of the splitter, over the files _build_partial_content writes *)

IsTagLine(line) == StartsWith(line, <<kLT>>)

OpenTagKind(line) ==
    IF line = Str("<CODE>") THEN kCODE
    ELSE IF line = Str("<COMMANDS>") THEN kCOMMANDS
    ELSE <<>>

(* the line that ends the section opened on line k: the first tag line
   after it, 0 if there is none *)
SectionEnd(ls, k) ==
    Bind({e \in (k + 1)..Len(ls) : IsTagLine(ls[e])}, LAMBDA tags :
        IF tags = {} THEN 0 ELSE SetMin(tags))

(* from line k on, the file is made of sections only: an open tag line,
   content lines, the close tag line of the same kind *)
RECURSIVE WellFormedFrom(_, _)
WellFormedFrom(ls, k) ==
    Bind(k, LAMBDA n :
        \/ n > Len(ls)
        \/ /\ OpenTagKind(ls[n]) # <<>>
           /\ \A e \in {SectionEnd(ls, n)} :
                  /\ e # 0
                  /\ ls[e] = Str("</") \o OpenTagKind(ls[n]) \o Str(">")
                  /\ WellFormedFrom(ls, e + 1))

(* the sections of such a file, in source order *)
RECURSIVE SectionsOfLines(_, _)
SectionsOfLines(ls, k) ==
    Bind(k, LAMBDA n :
        IF n > Len(ls) THEN <<>>
        ELSE Bind(SectionEnd(ls, n), LAMBDA e :
                 <<Section(OpenTagKind(ls[n]), Join(SubSeq(ls, n + 1, e - 1), <<LF>>),
                           FALSE, <<>>)>>
                 \o SectionsOfLines(ls, e + 1)))

(* C30: a file made only of sections with matching open and close tags,
   sections without content lines among them, is split into exactly those
   sections in source order, and no tag text is in the stream. *)
C30_WellFormedSectionsSplit ==
    Compiled =>
        \A ls \in {ScriptLines} :
            WellFormedFrom(ls, 1) =>
                /\ SplitIntoSections(script) = SectionsOfLines(ls, 1)
                /\ \A tag \in {Str("<CODE"), Str("</CODE"), Str("<COMMANDS"),
                               Str("</COMMANDS")} : ~HasSubSeq(commands, tag)

----------------------------------------------------------------------------
(* struct_editor.py: the StructEditor key handler and its run loop *)

KEY_DOWN == 258
KEY_UP == 259
KEY_LEFT == 260
KEY_RIGHT == 261
KEY_HOME == 262
KEY_BACKSPACE == 263
KEY_DC == 330
KEY_END == 360
CtrlN == 14
CtrlO == 15
CtrlQ == 17
CtrlS == 19

(* getch returns -1 when the 100 ms timeout expires *)
NoInput == 0 - 1

(* self.filename is None *)
NoFile == "None"

(* last_key before the first getch *)
NoKey == 0

(* the height stdscr.getmaxyx() reports *)
max_y == 5

(* the state of a StructEditor; ret is what handle_key returns, error tells
   that an IndexError left it *)
EdState(ls, y, x, sy, m, msg, fn) ==
    [ls |-> ls, y |-> y, x |-> x, sy |-> sy, modified |-> m, status |-> msg,
     filename |-> fn, ret |-> TRUE, error |-> FALSE]

IndexError(e) == [e EXCEPT !.error = TRUE]

(* the line breaks of str.splitlines; open() in text mode has already turned
   \r\n and \r into \n *)
LineBreaks == {10, 11, 12, 13, 28, 29, 30, 133, 8232, 8233}

(* str.splitlines: no empty last line after a final line break, [] for '' *)
RECURSIVE SplitLines(_)
SplitLines(s) ==
    Bind(s, LAMBDA t :
    Bind({k \in 1..Len(t) : t[k] \in LineBreaks}, LAMBDA breaks :
        IF t = <<>> THEN <<>>
        ELSE IF breaks = {} THEN <<t>>
        ELSE Bind(SetMin(breaks), LAMBDA k :
                 <<SubSeq(t, 1, k - 1)>> \o SplitLines(SubSeq(t, k + 1, Len(t))))))

(* the lines new_file puts into the editor *)
TemplateLines ==
    << Str("<CODE>"),
       Str("    # Your code here"),
       Str("    print(") \o <<34>> \o Str("Hello, World!") \o <<34>> \o Str(")"),
       Str("</CODE>"),
       <<>>,
       Str("<COMMANDS>"),
       Str("    # Commands here"),
       Str("    ENTER 2"),
       Str("</COMMANDS>") >>

(* new_file: the scroll position and the status message stay *)
NewFile(e) ==
    [e EXCEPT !.ls = TemplateLines, !.filename = NoFile, !.modified = FALSE,
              !.y = 1, !.x = 4]

(* load_file(filename): text is the content of the file, ok tells that it
   could be read *)
LoadFile(e, text, ok) ==
    IF ok THEN [e EXCEPT !.ls = SplitLines(text), !.filename = "file.struct",
                         !.modified = FALSE, !.status = "Loaded"]
    ELSE NewFile([e EXCEPT !.status = "Error loading"])

(* save_file(): ok tells that the file could be written *)
SaveFile(e, ok) ==
    IF e.filename = NoFile THEN [e EXCEPT !.status = "No filename specified"]
    ELSE IF ok THEN [e EXCEPT !.modified = FALSE, !.status = "Saved"]
    ELSE [e EXCEPT !.status = "Error saving"]

(* self.lines[k] = s, del self.lines[k], self.lines.insert(k, s) *)
SetLine(ls, k, s) == [ls EXCEPT ![k + 1] = s]
DelLine(ls, k) == SubSeq(ls, 1, k) \o SubSeq(ls, k + 2, Len(ls))
InsertLine(ls, k, s) == SubSeq(ls, 1, Min(k, Len(ls))) \o <<s>> \o From(ls, k)

KeyUp(e) ==
    IF e.y > 0 THEN
        IF ~InRange(e.ls, e.y - 1) THEN IndexError([e EXCEPT !.y = e.y - 1])
        ELSE [e EXCEPT !.y = e.y - 1,
                       !.x = Min(e.x, Len(e.ls[e.y])),
                       !.sy = IF e.y - 1 < e.sy THEN e.y - 1 ELSE e.sy]
    ELSE e

KeyDown(e) ==
    IF e.y < Len(e.ls) - 1 THEN
        IF ~InRange(e.ls, e.y + 1) THEN IndexError([e EXCEPT !.y = e.y + 1])
        ELSE [e EXCEPT !.y = e.y + 1,
                       !.x = Min(e.x, Len(e.ls[e.y + 2])),
                       !.sy = IF e.y + 1 >= e.sy + max_y - 2 THEN e.y + 1 - max_y + 3
                              ELSE e.sy]
    ELSE e

KeyLeft(e) ==
    IF e.x > 0 THEN [e EXCEPT !.x = e.x - 1]
    ELSE IF e.y > 0 THEN
        IF ~InRange(e.ls, e.y - 1) THEN IndexError([e EXCEPT !.y = e.y - 1])
        ELSE [e EXCEPT !.y = e.y - 1, !.x = Len(e.ls[e.y])]
    ELSE e

KeyRight(e) ==
    IF ~InRange(e.ls, e.y) THEN IndexError(e)
    ELSE IF e.x < Len(e.ls[e.y + 1]) THEN [e EXCEPT !.x = e.x + 1]
    ELSE IF e.y < Len(e.ls) - 1 THEN [e EXCEPT !.y = e.y + 1, !.x = 0]
    ELSE e

KeyHome(e) == [e EXCEPT !.x = 0]

KeyEnd(e) ==
    IF ~InRange(e.ls, e.y) THEN IndexError(e)
    ELSE [e EXCEPT !.x = Len(e.ls[e.y + 1])]

KeyBackspace(e) ==
    IF e.x > 0 THEN
        IF ~InRange(e.ls, e.y) THEN IndexError(e)
        ELSE [e EXCEPT !.ls = SetLine(e.ls, e.y,
                                  Upto(e.ls[e.y + 1], e.x - 1) \o From(e.ls[e.y + 1], e.x)),
                       !.x = e.x - 1,
                       !.modified = TRUE]
    ELSE IF e.y > 0 THEN
        IF ~InRange(e.ls, e.y - 1) \/ ~InRange(e.ls, e.y) THEN IndexError(e)
        ELSE [e EXCEPT !.ls = DelLine(SetLine(e.ls, e.y - 1, e.ls[e.y] \o e.ls[e.y + 1]),
                                      e.y),
                       !.y = e.y - 1,
                       !.x = Len(e.ls[e.y]),
                       !.modified = TRUE]
    ELSE e

KeyDelete(e) ==
    IF ~InRange(e.ls, e.y) THEN IndexError(e)
    ELSE IF e.x < Len(e.ls[e.y + 1]) THEN
        [e EXCEPT !.ls = SetLine(e.ls, e.y,
                             Upto(e.ls[e.y + 1], e.x) \o From(e.ls[e.y + 1], e.x + 1)),
                  !.modified = TRUE]
    ELSE IF e.y < Len(e.ls) - 1 THEN
        [e EXCEPT !.ls = DelLine(SetLine(e.ls, e.y, e.ls[e.y + 1] \o e.ls[e.y + 2]),
                                 e.y + 1),
                  !.modified = TRUE]
    ELSE e

KeyEnter(e) ==
    IF ~InRange(e.ls, e.y) THEN IndexError(e)
    ELSE [e EXCEPT !.ls = InsertLine(SetLine(e.ls, e.y, Upto(e.ls[e.y + 1], e.x)),
                                     e.y + 1, From(e.ls[e.y + 1], e.x)),
                   !.y = e.y + 1,
                   !.x = 0,
                   !.modified = TRUE]

KeyCtrlO(e) == [e EXCEPT !.status = "Open file: (not implemented in this demo)"]

KeyCtrlN(e) ==
    IF e.modified THEN [e EXCEPT !.status = "Unsaved changes! Save first."]
    ELSE NewFile(e)

KeyCtrlQ(e) ==
    IF e.modified THEN
        [e EXCEPT !.status =
             "Unsaved changes! Save first or press Ctrl+Q again to force quit."]
    ELSE [e EXCEPT !.ret = FALSE]

KeyPrintable(e, key) ==
    IF ~InRange(e.ls, e.y) THEN IndexError(e)
    ELSE [e EXCEPT !.ls = SetLine(e.ls, e.y,
                              Upto(e.ls[e.y + 1], e.x) \o <<key>> \o From(e.ls[e.y + 1], e.x)),
                   !.x = e.x + 1,
                   !.modified = TRUE]

(* the status message is cleared after a key press *)
ClearStatus(e, key) ==
    IF e.status # "" /\ key # NoInput THEN [e EXCEPT !.status = ""] ELSE e

KeyBranch(e, key, ok) ==
    IF key = KEY_UP THEN KeyUp(e)
    ELSE IF key = KEY_DOWN THEN KeyDown(e)
    ELSE IF key = KEY_LEFT THEN KeyLeft(e)
    ELSE IF key = KEY_RIGHT THEN KeyRight(e)
    ELSE IF key = KEY_HOME THEN KeyHome(e)
    ELSE IF key = KEY_END THEN KeyEnd(e)
    ELSE IF key = KEY_BACKSPACE \/ key = 127 THEN KeyBackspace(e)
    ELSE IF key = KEY_DC THEN KeyDelete(e)
    ELSE IF key = 10 \/ key = 13 THEN KeyEnter(e)
    ELSE IF key = CtrlS THEN SaveFile(e, ok)
    ELSE IF key = CtrlO THEN KeyCtrlO(e)
    ELSE IF key = CtrlN THEN KeyCtrlN(e)
    ELSE IF key = CtrlQ THEN KeyCtrlQ(e)
    ELSE IF 32 <= key /\ key <= 126 THEN KeyPrintable(e, key)
    ELSE e

(* handle_key(key) *)
HandleKey(e, key, ok) ==
    Bind(ClearStatus(e, key), LAMBDA cleared : KeyBranch(cleared, key, ok))

(* the values run compares: cursor, scroll, modified, status message *)
Tracked(e, sx) ==
    [cursor_y |-> e.y, cursor_x |-> e.x, scroll_y |-> e.sy, scroll_x |-> sx,
     modified |-> e.modified, status_message |-> e.status]

NeedsRedraw_Always(e, sx, p) == TRUE

(* needs_redraw of run *)
NeedsRedraw(e, sx, p) ==
    \/ e.y # p.cursor_y
    \/ e.x # p.cursor_x
    \/ e.sy # p.scroll_y
    \/ sx # p.scroll_x
    \/ e.modified # p.modified
    \/ e.status # p.status_message

(* the editor as a record *)
Editor ==
    EdState(self_lines, cursor_y, cursor_x, scroll_y, modified, status_message, filename)

MaxKeys == 3
MaxFileLen == 2

(* the keys getch returns: every branch of handle_key, and the timeout *)
Keys ==
    {KEY_UP, KEY_DOWN, KEY_LEFT, KEY_RIGHT, KEY_HOME, KEY_END, KEY_BACKSPACE, KEY_DC,
     10, CtrlS, CtrlO, CtrlN, CtrlQ, Ord("a"), NoInput}

FileChars == {Ord("a"), LF}

(* contents of the file named on the command line *)
FileTexts == UNION {[1..n -> FileChars] : n \in 0..MaxFileLen}

(* StructEditor(stdscr, filename): __init__ sets the defaults, then loads
   the file or makes a new one *)
Constructed ==
    {NewFile(EdState(<<>>, 0, 0, 0, FALSE, "", NoFile))}
    \cup {LoadFile(EdState(<<>>, 0, 0, 0, FALSE, "", "file.struct"), text, TRUE) :
             text \in FileTexts}
    \cup {LoadFile(EdState(<<>>, 0, 0, 0, FALSE, "", "file.struct"), <<>>, FALSE)}

InitEditor ==
    /\ pc = "edit"
    /\ script = <<>>
    /\ commands = <<>>
    /\ source_lines = <<>>
    /\ up_to_line = 0
    /\ Fresh
    /\ NoMain
    /\ ed_pc = "constructed"
    /\ \E e \in Constructed :
           /\ self_lines = e.ls
           /\ cursor_y = e.y
           /\ cursor_x = e.x
           /\ scroll_y = e.sy
           /\ modified = e.modified
           /\ status_message = e.status
           /\ filename = e.filename
    /\ scroll_x = 0
    /\ prev = <<>>
    /\ draw_count = 0
    /\ last_key = NoKey
    /\ key_count = 0

core_vars == <<pc, script, diagnostics, commands, source_lines, up_to_line>>

(* run(): the prev_* locals are set and the screen is drawn once *)
RunStart ==
    /\ ed_pc = "constructed"
    /\ prev' = Tracked(Editor, scroll_x)
    /\ draw_count' = draw_count + 1
    /\ ed_pc' = "run"
    /\ UNCHANGED <<self_lines, cursor_y, cursor_x, scroll_y, scroll_x, modified,
                   status_message, filename, last_key, key_count>>
    /\ UNCHANGED core_vars
    /\ UNCHANGED interp_vars
    /\ UNCHANGED dispatch_vars
    /\ UNCHANGED parser_vars
    /\ UNCHANGED main_vars

(* one pass of the loop of run: getch, handle_key, and the redraw when
   needs_redraw holds *)
KeyPress ==
    /\ ed_pc = "run"
    /\ key_count < MaxKeys
    /\ \E key \in Keys, ok \in BOOLEAN :
       \E e \in {HandleKey(Editor, key, ok)} :
           /\ last_key' = key
           /\ self_lines' = e.ls
           /\ cursor_y' = e.y
           /\ cursor_x' = e.x
           /\ scroll_y' = e.sy
           /\ modified' = e.modified
           /\ status_message' = e.status
           /\ filename' = e.filename
           /\ ed_pc' = IF e.error THEN "crashed" ELSE IF ~e.ret THEN "quit" ELSE "run"
           /\ IF ~e.error /\ e.ret /\ NeedsRedraw(e, scroll_x, prev) THEN
                  /\ draw_count' = draw_count + 1
                  /\ prev' = Tracked(e, scroll_x)
              ELSE UNCHANGED <<draw_count, prev>>
    /\ key_count' = key_count + 1
    /\ UNCHANGED scroll_x
    /\ UNCHANGED core_vars
    /\ UNCHANGED interp_vars
    /\ UNCHANGED dispatch_vars
    /\ UNCHANGED parser_vars
    /\ UNCHANGED main_vars

NextEditor == RunStart \/ KeyPress

SpecEditor == InitEditor /\ [][NextEditor]_vars

----------------------------------------------------------------------------
(* Properties of the editor *)

(* a pass of the run loop in which getch returned key *)
KeyHandled(key) ==
    /\ ed_pc = "run"
    /\ key_count' = key_count + 1
    /\ last_key' = key

(* a pass of the run loop after which the loop goes on *)
KeyStep == ed_pc = "run" /\ key_count' = key_count + 1 /\ ed_pc' = "run"

(* a key press that leaves the text, the cursor, the scroll position, the
   modified flag and the file name as they were, and sets no status message *)
NoOpKey ==
    /\ KeyStep
    /\ UNCHANGED <<self_lines, cursor_y, cursor_x, scroll_y, scroll_x, modified, filename>>
    /\ status_message' \in {status_message, ""}

(* C31: with unsaved changes, a Ctrl+Q pressed immediately after a Ctrl+Q
   force-quits: handle_key returns False and the run loop terminates. *)
C31_SecondCtrlQQuits ==
    [][(modified /\ last_key = CtrlQ /\ KeyHandled(CtrlQ)) => ed_pc' = "quit"]_vars

(* C32: a key press that only moves the cursor horizontally within the same
   line does not trigger draw_screen. *)
C32_HorizontalMoveNoDraw ==
    [][(/\ KeyStep
        /\ cursor_x' # cursor_x
        /\ UNCHANGED <<self_lines, cursor_y, scroll_y, scroll_x, modified,
                       status_message, filename>>)
       => draw_count' = draw_count]_vars

(* C33 as stated: a no-op key press never triggers draw_screen, also when a
   status message is displayed. *)
C33_NoOpNeverDraws == [][NoOpKey => draw_count' = draw_count]_vars

(* C33: a no-op key press triggers no draw_screen when it leaves the status
   message as it is (none is displayed, or the key is the timeout -1); when
   it clears a displayed status message, draw_screen is called once. *)
C33_NoOpDrawsOnlyToClearStatus ==
    [][NoOpKey => draw_count' = IF status_message' = status_message THEN draw_count
                                ELSE draw_count + 1]_vars

(* the up arrow on the first line of a loaded file, pressed while "Loaded" is
   displayed: the message is cleared and the screen drawn a second time *)
C33_Witness ==
    /\ ed_pc = "run"
    /\ key_count = 1
    /\ last_key = KEY_UP
    /\ cursor_y = 0
    /\ filename # NoFile
    /\ status_message = ""
    /\ prev.status_message = ""
    /\ draw_count = 2

(* C36: from new_file() or load_file() of any file, after any sequence of
   key events the editor has at least one line, 0 <= cursor_y < len(lines)
   and 0 <= cursor_x <= len(lines[cursor_y]), and no key event raised
   IndexError. *)
C36_CursorInsideText ==
    ed_pc # "idle" =>
        /\ ed_pc # "crashed"
        /\ Len(self_lines) >= 1
        /\ 0 <= cursor_y /\ cursor_y < Len(self_lines)
        /\ 0 <= cursor_x /\ cursor_x <= Len(self_lines[cursor_y + 1])

----------------------------------------------------------------------------
(* The preview at the last line *)

(* the kind of the section a line opens, in either case; <<>> if none *)
OpenTagKindAnyCase(line) == OpenTagKind(Upper(line))

(* from line k on, every section of the file is closed: the file is made of
   plain-text lines and of sections, each an open tag line, content lines
   and the close tag line of the same kind, the tags in either case *)
RECURSIVE AllClosedFrom(_, _)
AllClosedFrom(ls, k) ==
    Bind(k, LAMBDA n :
        \/ n > Len(ls)
        \/ /\ ~IsTagLine(ls[n])
           /\ AllClosedFrom(ls, n + 1)
        \/ /\ OpenTagKindAnyCase(ls[n]) # <<>>
           /\ \A e \in {SectionEnd(ls, n)} :
                  /\ e # 0
                  /\ Upper(ls[e]) = Str("</") \o OpenTagKindAnyCase(ls[n]) \o Str(">")
                  /\ AllClosedFrom(ls, e + 1))

(* the cutoff of simulate_execution is the last line of the content *)
AtLastLine == Built /\ up_to_line = Len(source_lines) - 1

(* C34: for a script whose sections are all closed, lower-case tags and
   plain-text lines outside sections included, the script reconstructed
   with the cutoff at the last line compiles to the stream of the original
   script. *)
C34_LastLineIsWholeDocument ==
    (AtLastLine /\ AllClosedFrom(source_lines, 1)) =>
        ParseStructuredFile(script).out = ParseStructuredFile(Join(source_lines, <<LF>>)).out

----------------------------------------------------------------------------
(* tests/conftest.py: MockEditor, the interpreter copy of the test suite
   (test_simulation.py holds the same code with local variables) *)

(* MockEditor._handle_arrow_command: l, r, u and d only *)
MockHandleArrowCommand(cmd, tb, cl, cc) ==
    IF cmd = Ord("l") THEN
        IF cc > 0 THEN [line |-> cl, col |-> cc - 1]
        ELSE IF cl > 0 THEN
            [line |-> cl - 1, col |-> IF cl - 1 < Len(tb) THEN Len(tb[cl]) ELSE 0]
        ELSE [line |-> cl, col |-> cc]
    ELSE IF cmd = Ord("r") THEN
        LET line_len == IF cl < Len(tb) THEN Len(tb[cl + 1]) ELSE 0
        IN  IF cc < line_len THEN [line |-> cl, col |-> cc + 1]
            ELSE IF cl < Len(tb) - 1 THEN [line |-> cl + 1, col |-> 0]
            ELSE [line |-> cl, col |-> cc]
    ELSE IF cmd = Ord("u") THEN
        IF cl > 0 THEN
            LET line_len == IF cl - 1 < Len(tb) THEN Len(tb[cl]) ELSE 0
            IN  [line |-> cl - 1, col |-> Min(cc, line_len)]
        ELSE [line |-> cl, col |-> cc]
    ELSE IF cmd = Ord("d") THEN
        IF cl < Len(tb) - 1 THEN
            LET line_len == IF cl + 1 < Len(tb) THEN Len(tb[cl + 2]) ELSE 0
            IN  [line |-> cl + 1, col |-> Min(cc, line_len)]
        ELSE [line |-> cl, col |-> cc]
    ELSE [line |-> cl, col |-> cc]

(* MockEditor._handle_newline *)
MockHandleNewline(j, tb, cl, cc) ==
    IF ~InRange(tb, cl) THEN St(tb, cl, cc, j, TRUE)
    ELSE LET current_line == tb[cl + 1]
         IN  St(SubSeq(tb, 1, cl) \o <<Upto(current_line, cc), From(current_line, cc)>>
                    \o SubSeq(tb, cl + 2, Len(tb)),
                cl + 1, 0, j + 1, FALSE)

(* MockEditor._handle_backspace *)
MockHandleBackspace(j, tb, cl, cc) ==
    IF cc > 0 THEN
        IF ~InRange(tb, cl) THEN St(tb, cl, cc, j, TRUE)
        ELSE St([tb EXCEPT ![cl + 1] = Upto(tb[cl + 1], cc - 1) \o From(tb[cl + 1], cc)],
                cl, cc - 1, j + 1, FALSE)
    ELSE IF cl > 0 THEN
        IF ~InRange(tb, cl - 1) THEN St(tb, cl, cc, j, TRUE)
        ELSE LET prev_line == tb[cl]
                 current_line == IF cl < Len(tb) THEN tb[cl + 1] ELSE <<>>
                 joined == [tb EXCEPT ![cl] = prev_line \o current_line]
             IN  St(IF cl < Len(tb)
                        THEN SubSeq(joined, 1, cl) \o SubSeq(joined, cl + 2, Len(joined))
                        ELSE joined,
                    cl - 1, Len(prev_line), j + 1, FALSE)
    ELSE St(tb, cl, cc, j + 1, FALSE)

(* MockEditor._insert_char *)
MockInsertChar(j, tb, cl, cc, char) ==
    IF ~InRange(tb, cl) THEN St(tb, cl, cc, j, TRUE)
    ELSE St([tb EXCEPT ![cl + 1] = Upto(tb[cl + 1], cc) \o <<char>> \o From(tb[cl + 1], cc)],
            cl, cc + 1, j + 1, FALSE)

(* one pass of the while loop of MockEditor._simulate_typing_result *)
MockLoopBody(cmds, j, tb0, cl, cc) ==
    LET char == cmds[j + 1]
        tb == EnsureLines(tb0, cl)
    IN  IF char = BEL THEN
            IF j + 1 < Len(cmds) THEN
                LET a == MockHandleArrowCommand(cmds[j + 2], tb, cl, cc)
                IN  St(tb, a.line, a.col, j + 2, FALSE)
            ELSE St(tb, cl, cc, j + 1, FALSE)
        ELSE IF char = LF THEN MockHandleNewline(j, tb, cl, cc)
        ELSE IF char = BS THEN MockHandleBackspace(j, tb, cl, cc)
        ELSE IF IsPrintable(char) THEN MockInsertChar(j, tb, cl, cc, char)
        ELSE St(tb, cl, cc, j + 1, FALSE)

(* the while loop from position j on *)
RECURSIVE MockLoop(_, _)
MockLoop(cmds, s) ==
    Bind(s, LAMBDA t :
        IF t.raised \/ t.i >= Len(cmds) THEN t
        ELSE MockLoop(cmds, MockLoopBody(cmds, t.i, t.buf, t.line, t.col)))

(* MockEditor._simulate_typing_result(commands): reset, the loop, the cursor
   indicator, the trailing empty lines removed; <<>> stands for an exception *)
MockSimulateTypingResult(cmds) ==
    Bind(MockLoop(cmds, St(<<<<>>>>, 0, 0, 0, FALSE)), LAMBDA t :
        IF t.raised THEN <<>> ELSE PopEmpty(AddCursor(t.buf, t.line, t.col)))

(* C35: for every canonical stream, streams with Down at the last line, Tab,
   Home/End, CtrlHome/CtrlEnd and PageUp/PageDown among them, the MockEditor
   of the test suite and StructEditor._simulate_typing_result return the
   same line list. *)
C35_MockAgreesWithEditor ==
    pc \in {"dispatch", "done"} =>
        /\ ~raised
        /\ \A mock \in {MockSimulateTypingResult(commands)} : mock # <<>> /\ mock = result

----------------------------------------------------------------------------
(* tyrec.py: the Pause listener and the typing loop *)

(* _on_press of start_pause_listener, called in the listener thread for the
   Pause key: LIVE_INPUT_MODE is cleared if set and set if clear *)
PausePressed ==
    /\ pc \in {"dispatch", "recording"}
    /\ LIVE_INPUT_MODE' = ~LIVE_INPUT_MODE
    /\ UNCHANGED <<pc, commands, text_pos, arrows_flag, held, value_error, dkinds>>
    /\ UNCHANGED parse_vars
    /\ UNCHANGED interp_vars
    /\ UNCHANGED partial_vars
    /\ UNCHANGED parser_vars
    /\ UNCHANGED editor_vars
    /\ UNCHANGED main_vars

(* a pass of the typing loop that finds LIVE_INPUT_MODE set, with pynput
   installed: the unit is taken from text_iter, and the loop records live
   input until the event is cleared *)
TypingPaused ==
    /\ pc = "dispatch"
    /\ text_pos < Len(commands)
    /\ LIVE_INPUT_MODE
    /\ text_pos' = text_pos + 1
    /\ dkinds' = Append(dkinds, "skipped")
    /\ pc' = "recording"
    /\ UNCHANGED <<commands, arrows_flag, LIVE_INPUT_MODE, held, value_error>>
    /\ UNCHANGED parse_vars
    /\ UNCHANGED interp_vars
    /\ UNCHANGED partial_vars
    /\ UNCHANGED parser_vars
    /\ UNCHANGED editor_vars
    /\ UNCHANGED main_vars

(* while LIVE_INPUT_MODE.is_set(): time.sleep(0.1) ends, and the pass
   continues with the next unit of the file *)
RecordingEnds ==
    /\ pc = "recording"
    /\ ~LIVE_INPUT_MODE
    /\ pc' = "dispatch"
    /\ UNCHANGED <<commands, text_pos, arrows_flag, LIVE_INPUT_MODE, held, value_error,
                   dkinds>>
    /\ UNCHANGED parse_vars
    /\ UNCHANGED interp_vars
    /\ UNCHANGED partial_vars
    /\ UNCHANGED parser_vars
    /\ UNCHANGED editor_vars
    /\ UNCHANGED main_vars

(* a pass of the typing loop that finds LIVE_INPUT_MODE clear *)
TypingDispatch == ~LIVE_INPUT_MODE /\ TypingStep

(* units of the streams typed while the Pause listener runs: the marker, a
   directive, the exit directive and a character *)
PauseUnits == {BEL, Ord("u"), Ord("Q"), Ord("x")}

PauseStreams == UNION {[1..n -> PauseUnits] : n \in 0..MaxLen}

(* simulate_typing(commands) called while the Pause listener runs *)
InitPause ==
    /\ pc = "dispatch"
    /\ script = <<>>
    /\ commands \in PauseStreams
    /\ source_lines = <<>>
    /\ up_to_line = 0
    /\ Fresh
    /\ NoEditor
    /\ NoMain

NextPause == PausePressed \/ TypingPaused \/ RecordingEnds \/ TypingDispatch \/ TypingReturn

SpecPause == InitPause /\ [][NextPause]_vars

(* the units dispatched so far are the units taken so far *)
NothingSkipped == \A k \in 1..Len(dkinds) : dkinds[k] # "skipped"

(* C37: for every interleaving of the Pause listener's toggles with the
   typing loop, every unit of the stream is dispatched exactly once and in
   order: when simulate_typing has returned without an error, no unit of
   the file was skipped. *)
C37_NoUnitSkipped ==
    (pc = "done" /\ ~value_error) => (Len(dkinds) = Len(commands) /\ NothingSkipped)

----------------------------------------------------------------------------
(* Units the interpreter ignores *)

(* units that are neither printable ASCII nor newline, backspace, tab or the
   marker: control characters, DEL, and characters above 126 *)
IgnoredUnits == {0, 1, CR, 27, 127, 233, CursorGlyph}

(* C38: in every interpreter state, a pass that processes a unit that is
   neither printable ASCII (32..126) nor newline, backspace, tab or the
   marker leaves the buffer and the cursor unchanged. *)
C38_IgnoredUnitKeepsState ==
    InLoop =>
        \A u \in IgnoredUnits :
            \A s \in {LoopBody(<<u>>, 0, text_buffer, cursor_line, cursor_col)} :
                /\ ~s.raised /\ s.i = 1
                /\ s.buf = text_buffer
                /\ s.line = cursor_line /\ s.col = cursor_col

----------------------------------------------------------------------------
(* Counts of 0 and below *)

(* second tokens that are integers not above 0 *)
CountTexts == {Str("0"), Str("-1")}

(* a command line with such a count, alone in its section or between two
   other lines *)
CountSections(line) == {<<line>>, <<Str("ENTER 2"), line, Str("HOME")>>}

(* every name of the command map with every such count, under every open tag *)
CountScripts ==
    UNION {UNION {UNION {{CommandScript(tag, cmdlines, TRUE) :
                             cmdlines \in CountSections(name \o <<32>> \o count)} :
                         count \in CountTexts} :
                  name \in TableNames(generic_commands) \cup TableNames(TableOfTag(tag))} :
           tag \in EntryTags}

(* such a file compiled and its stream consumed *)
InitCounts ==
    /\ pc = "parse"
    /\ script \in CountScripts
    /\ commands = <<>>
    /\ source_lines = <<>>
    /\ up_to_line = 0
    /\ Fresh
    /\ NoEditor
    /\ NoMain

SpecCounts == InitCounts /\ [][NextPipeline]_vars

(* no diagnostic of any kind names the line *)
NotWarned(line) == \A d \in 1..Len(diagnostics) : diagnostics[d].line # line

(* the six commands the compiler repeats by name *)
RepeatableNames ==
    {Str("ARROW_UP"), Str("ARROW_DOWN"), Str("ARROW_LEFT"), Str("ARROW_RIGHT"),
     Str("BACKSPACE"), Str("ENTER")}

(* a known command that does not repeat: it is none of the six, it is not
   SLEEP, and its expansion is no movement, backspace or newline *)
DoesNotRepeat(sec, name) ==
    /\ Known(sec, name)
    /\ name \notin RepeatableNames
    /\ name # Str("SLEEP")
    /\ Expansion(sec, name) \notin RepeatableExpansions

(* C39: with a count of 0 or below, a line of a repeatable command
   (ARROW_UP/DOWN/LEFT/RIGHT, BACKSPACE, ENTER) contributes no tokens and
   emits no diagnostic, and a line of a command that does not repeat
   contributes its token sequence once and emits no diagnostic. *)
C39_CountNotAboveZero ==
    EveryCommandLine(LAMBDA ls, sec, k, line :
        \A name \in {CommandName(line)} :
            (HasCount(line) /\ CountOf(line) <= 0) =>
                /\ name \in RepeatableNames =>
                       Contributes(ls, k, <<>>) /\ NotWarned(line)
                /\ DoesNotRepeat(sec, name) =>
                       Contributes(ls, k, Expansion(sec, name)) /\ NotWarned(line))

(* ARROW_LEFT -1 between ENTER 2 and HOME added nothing to the stream, and
   CTRL_END 0 alone in its section gave \aE once; no warning was printed *)
C39_Witness ==
    /\ Compiled
    /\ diagnostics = <<>>
    /\ \/ /\ script = CommandScript(<<>>, <<Str("ENTER 2"), Str("ARROW_LEFT -1"), Str("HOME")>>,
                                    TRUE)
          /\ commands = <<LF, LF>> \o Esc("b")
       \/ /\ script = CommandScript(<<>>, <<Str("CTRL_END 0")>>, TRUE)
          /\ commands = Esc("E")

----------------------------------------------------------------------------
(* main.py: simulate_typing, the second dispatch backend *)

(* the elif chain of the arrows mode: the keys still held after the branch
   for char ran; the branch for l presses Key.left and releases Key.right *)
MainArrowAction(char, h) ==
    IF char = Ord("u") THEN h \ {"up"}
    ELSE IF char = Ord("d") THEN h \ {"down"}
    ELSE IF char = Ord("l") THEN (h \cup {"left"}) \ {"right"}
    ELSE IF char = Ord("r") THEN h \ {"right"}
    ELSE IF char = Ord("s") THEN h \cup {"shift"}
    ELSE IF char = Ord("S") THEN h \ {"shift"}
    ELSE IF char = Ord("e") THEN h \ {"end"}
    ELSE IF char = Ord("b") THEN h \ {"home"}
    ELSE IF char = Ord("E") THEN h \ {"end", "ctrl"}
    ELSE IF char = Ord("B") THEN h \ {"home", "ctrl"}
    ELSE IF char = Ord("U") THEN h \ {"page_up"}
    ELSE IF char = Ord("D") THEN h \ {"page_down"}
    ELSE h

(* the directives the elif chain knows; any other unit raises ValueError *)
MainArrowKeys ==
    {Ord(c) : c \in {"Q", "u", "d", "l", "r", "s", "S", "e", "b", "E", "B", "U", "D", "z"}}

(* the else branch of the loop body: an ordinary unit *)
MainRegularChar(char, h) ==
    IF IsUpper(char) \/ char \in ShiftedChars THEN h \ {"shift"}
    ELSE IF char = LF THEN h \ {"enter"}
    ELSE IF char = BS THEN h \ {"backspace"}
    ELSE IF char = 32 THEN h \ {"space"}
    ELSE h

(* one pass of the for loop of main.simulate_typing *)
MainBody(char, flag, h) ==
    IF flag THEN
        IF char \notin MainArrowKeys THEN [flag |-> flag, held |-> h, error |-> TRUE]
        ELSE [flag |-> char # Ord("Q"), held |-> MainArrowAction(char, h), error |-> FALSE]
    ELSE IF IsUpper(char) \/ char \in ShiftedChars \/ char \in {LF, BS, 32} THEN
        [flag |-> flag, held |-> MainRegularChar(char, h), error |-> FALSE]
    ELSE IF char = BEL THEN [flag |-> TRUE, held |-> h, error |-> FALSE]
    ELSE [flag |-> flag, held |-> MainRegularChar(char, h), error |-> FALSE]

MainStep ==
    /\ main_pc = "loop"
    /\ main_pos < Len(commands)
    /\ \E d \in {MainBody(commands[main_pos + 1], main_arrows_flag, main_held)} :
           /\ main_arrows_flag' = d.flag
           /\ main_held' = d.held
           /\ main_error' = d.error
           /\ main_pc' = IF d.error THEN "done" ELSE "loop"
    /\ main_pos' = main_pos + 1
    /\ UNCHANGED core_vars
    /\ UNCHANGED interp_vars
    /\ UNCHANGED dispatch_vars
    /\ UNCHANGED parser_vars
    /\ UNCHANGED editor_vars

(* the for loop is over and simulate_typing returns *)
MainReturn ==
    /\ main_pc = "loop"
    /\ main_pos >= Len(commands)
    /\ main_pc' = "done"
    /\ UNCHANGED <<main_pos, main_arrows_flag, main_held, main_error>>
    /\ UNCHANGED core_vars
    /\ UNCHANGED interp_vars
    /\ UNCHANGED dispatch_vars
    /\ UNCHANGED parser_vars
    /\ UNCHANGED editor_vars

(* units of the streams handed to both backends: the marker, the shift
   directives, a movement, the exit directive, a letter in each case *)
BackendUnits == {BEL} \cup {Ord(c) : c \in {"s", "S", "l", "Q", "A", "x"}}

BackendStreams == UNION {[1..n -> BackendUnits] : n \in 0..MaxLen}

(* tyrec.simulate_typing and main.simulate_typing called on the same stream,
   each with its own keyboard controller *)
InitBackends ==
    /\ pc = "dispatch"
    /\ script = <<>>
    /\ commands \in BackendStreams
    /\ source_lines = <<>>
    /\ up_to_line = 0
    /\ Fresh
    /\ NoEditor
    /\ main_pc = "loop"
    /\ main_pos = 0
    /\ main_arrows_flag = FALSE
    /\ main_held = {}
    /\ main_error = FALSE

NextBackends == TypingStep \/ TypingReturn \/ MainStep \/ MainReturn

SpecBackends == InitBackends /\ [][NextBackends]_vars

(* the dispatcher is in arrows mode when it takes unit k of the stream *)
RECURSIVE ArrowsModeAt(_, _)
ArrowsModeAt(cmds, k) ==
    Bind(k, LAMBDA n :
        IF n <= 1 THEN FALSE
        ELSE IF ArrowsModeAt(cmds, n - 1) THEN cmds[n - 1] # Ord("Q")
        ELSE cmds[n - 1] = BEL)

(* every shift-press directive s is later followed by a shift-release S *)
ShiftReleased(cmds) ==
    \A k \in 1..Len(cmds) :
        (ArrowsModeAt(cmds, k) /\ cmds[k] = Ord("s")) =>
            \E r \in (k + 1)..Len(cmds) : ArrowsModeAt(cmds, r) /\ cmds[r] = Ord("S")

(* C40: in both dispatch backends, after a stream that raised no error and
   in which every shift-press directive is later followed by a
   shift-release, no key is left held down. *)
C40_NoKeyLeftHeld ==
    ShiftReleased(commands) =>
        /\ (pc = "done" /\ ~value_error) => held = {}
        /\ (main_pc = "done" /\ ~main_error) => main_held = {}
====
